---- MODULE Spec2Model ----
(***************************************************************************)
(* A model of the auto-caption web service: the Task Registry              *)
(* (web-service/app/task_manager.py), the background caption run           *)
(* (web-service/app/main.py, transcription.py, utils.py) and the status    *)
(* poll.                                                                   *)
(*                                                                         *)
(* Progress values are integers in units of 1/10000 (0.05 is 500, 1.0 is   *)
(* 10000); a local fraction sent by the transcription worker is an integer *)
(* in hundredths (0.5 is 50), so 0.10 + f * 0.65 is 1000 + f * 65 exactly. *)
(* An Optional value is None (the empty tuple) or Some(x) (a 1-tuple).     *)
(* A message is a sequence of text tokens; wrapping a message in an        *)
(* f-string prepends the f-string's literal part.                          *)
(* The created_at / updated_at timestamps of a Task are not modelled.      *)
(***************************************************************************)
EXTENDS Integers, Sequences, FiniteSets, TLC

VARIABLES
    tasks,      \* TaskManager.tasks: task id -> Task
    pc,         \* per task id: position of its background run
    job,        \* per task id: the arguments captured by executor.submit
    loc,        \* per task id: the local variables of the run
    files,      \* the subtitle files in the video directory
    audio,      \* per task id: whether its temporary audio file exists
    hist,       \* per task id: what the run has done so far (history)
    lock,       \* TaskManager.lock: None, or the thread that holds it
    wr,         \* the registry call a worker thread is in the middle of
    rd,         \* the status poll the server thread is in the middle of
    lastCall    \* the last call of a function studied on its own: its
                \* arguments and what it returned

pollVars == <<lock, wr, rd, lastCall>>
vars == <<tasks, pc, job, loc, files, audio, hist, lock, wr, rd, lastCall>>

(***************************************************************************)
(* Bounds of the model.                                                    *)
(***************************************************************************)
MaxTasks == 1       \* task ids that can be created
MaxWords == 3       \* words given to group_words_into_cues
MaxCues == 2        \* cues in a cue list or an SRT text
MaxPoolTasks == 5   \* jobs submitted to the worker pool studied on its own
MaxSegments == 3    \* segments the Transcription Service decodes for one request
MaxBlocks == 3      \* blocks of an SRT text given to parse_srt
MaxRuns == 2        \* background runs one after the other on one directory

TaskIds == 1..MaxTasks

None == <<>>
Some(x) == <<x>>

(***************************************************************************)
(* task_manager.py                                                         *)
(***************************************************************************)
QUEUED == "queued"
RUNNING == "running"
COMPLETED == "completed"
FAILED == "failed"
TaskStatus == {QUEUED, RUNNING, COMPLETED, FAILED}

EXTRACTING_AUDIO == "extracting_audio"
TRANSCRIBING == "transcribing"
TRANSLATING == "translating"
SAVING == "saving"
TaskStage == {EXTRACTING_AUDIO, TRANSCRIBING, TRANSLATING, SAVING}

ProgressOne == 10000    \* 1.0
ProgressZero == 0       \* 0.0

\* float('nan'), which json.loads reads from the token NaN: no comparison
\* with it holds
NaN == 999999999

\* a > b and a < b on floats
Gt(a, b) == a # NaN /\ b # NaN /\ a > b
Lt(a, b) == a # NaN /\ b # NaN /\ a < b

\* max(a, b) and min(a, b): the first argument unless the second is beyond it
Max(a, b) == IF Gt(b, a) THEN b ELSE a
Min(a, b) == IF Lt(b, a) THEN b ELSE a

\* min(max(progress, 0.0), 1.0)
Clamp(progress) == Min(Max(progress, ProgressZero), ProgressOne)

\* uuid.uuid4(): an id no task has
NewTaskId(ts) == CHOOSE id \in TaskIds \ DOMAIN ts : \A o \in TaskIds \ DOMAIN ts : id <= o

NewTask ==
    [status |-> QUEUED, progress |-> ProgressZero, stage |-> None,
     error |-> None, result |-> None]

create_task(ts, id) ==
    [x \in DOMAIN ts \cup {id} |-> IF x = id THEN NewTask ELSE ts[x]]

\* The attribute assignments each method makes while it holds the lock, in
\* the order of its lines, as <<field, value>>.
update_progress_writes(progress, stage) ==
    << <<"progress", Clamp(progress)>>,
       <<"stage", Some(stage)>>,
       <<"status", RUNNING>> >>

complete_task_writes(result) ==
    << <<"status", COMPLETED>>,
       <<"progress", ProgressOne>>,
       <<"result", Some(result)>>,
       <<"error", None>> >>

\* mutant: fail_task without the error assignment
fail_task_writes_no_error(error) ==
    << <<"status", FAILED>> >>

\* mutant: fail_task that also clears the stage
fail_task_writes_ClearsStage(error) ==
    << <<"status", FAILED>>,
       <<"error", Some(error)>>,
       <<"stage", None>> >>

fail_task_writes(error) ==
    << <<"status", FAILED>>,
       <<"error", Some(error)>> >>

\* self.tasks[task_id].<field> = value
Assign(task, w) == [task EXCEPT ![w[1]] = w[2]]

RECURSIVE AssignAll(_, _)
AssignAll(task, ws) ==
    IF ws = <<>> THEN task ELSE AssignAll(Assign(task, Head(ws)), Tail(ws))

\* mutant: the writes made to a fresh Task when the id is not in the registry
Locked_CreatesTask(ts, id, ws) ==
    [x \in DOMAIN ts \cup {id} |->
        IF x = id THEN AssignAll(IF id \in DOMAIN ts THEN ts[id] ELSE NewTask, ws)
        ELSE ts[x]]

\* with self.lock: if task_id in self.tasks: <the writes>
Locked(ts, id, ws) ==
    IF id \in DOMAIN ts THEN [ts EXCEPT ![id] = AssignAll(@, ws)] ELSE ts

update_progress(ts, id, progress, stage) ==
    Locked(ts, id, update_progress_writes(progress, stage))

complete_task(ts, id, result) == Locked(ts, id, complete_task_writes(result))

fail_task(ts, id, error) == Locked(ts, id, fail_task_writes(error))

get_task(ts, id) == IF id \in DOMAIN ts THEN Some(ts[id]) ELSE None


(***************************************************************************)
(* Requests, files and exceptions.                                         *)
(***************************************************************************)
Langs == {"en", "es"}
Videos == {"/data/movie.mp4"}
WHISPER_SERVER_URL == "http://whisper-server:2800"
LIBRETRANSLATE_URL == "http://libretranslate:5000"

\* CaptionRequest after its validators: language is a supported code,
\* translate_to is absent or a supported code
Requests ==
    [video_path : Videos, language : Langs,
     translate_to : {None} \cup {Some(l) : l \in Langs}]

\* a subtitle file {basename}.{lang}.srt (tag "") or {basename}.{lang}.{tag}.srt
SrtFile(video, lang, tag) == [video |-> video, lang |-> lang, tag |-> tag]

\* the files that may lie next to the video before any run
TaggedFiles == {SrtFile(v, "es", "forced") : v \in Videos}
FileSystems == {{}} \cup {{f} : f \in TaggedFiles}

Exc(type, msg) == [type |-> type, msg |-> msg]
\* str(e)
Str(e) == e.msg

\* a or b, for Optional a
Or(a, b) == IF a # None THEN a[1] ELSE b

(***************************************************************************)
(* utils.py                                                                *)
(***************************************************************************)
\* the directory entries both patterns of find_existing_srt accept
MatchingSrt(fs, video_path, language) ==
    {f \in fs : f.video = video_path /\ f.lang = language}

\* find_existing_srt: the first matching entry in os.listdir order (any one of
\* them), None when nothing matches or when os.listdir raises OSError
find_existing_srt(fs, video_path, language, listdir_ok) ==
    IF listdir_ok /\ MatchingSrt(fs, video_path, language) # {}
    THEN {Some(f) : f \in MatchingSrt(fs, video_path, language)}
    ELSE {None}

\* what open() and read() of an existing file can do
ReadOutcomes == {None, Some(Exc("OSError", <<"Permission denied">>))}

\* read_srt_file: the exception it raises, None when it returns the content
read_srt_file(fs, srt_path, os_error) ==
    IF srt_path \notin fs
    THEN Some(Exc("FileNotFoundError", <<"SRT file not found: ", srt_path.lang, srt_path.tag>>))
    ELSE os_error

\* save_srt_file: [path, files, raised]; os_error is the OSError that open() or
\* write() raises, None when the write succeeds
save_srt_file(fs, video_path, language, os_error) ==
    LET srt_path == SrtFile(video_path, language, "") IN
    IF os_error = None
    THEN [path |-> Some(srt_path), files |-> fs \cup {srt_path}, raised |-> None]
    ELSE [path |-> None, files |-> fs,
          raised |-> Some(Exc("PermissionError",
                       <<"Cannot write SRT file to ", language, ": ">> \o Str(os_error[1])))]

(***************************************************************************)
(* subtitle.py                                                             *)
(*                                                                         *)
(* A str is the sequence of its lines (what str.split('\n') gives, and     *)
(* what '\n'.join puts together); the empty str is one empty line.  A line *)
(* is a record that tells what the parser makes of it: an index line       *)
(* (int() reads n), a timing line ("start --> end", both timestamps        *)
(* HH:MM:SS,mmm), or a text line, whose characters are the sequence s.     *)
(* A float time is the double nearest to K / 1000, written as the integer  *)
(* K (milliseconds).                                                       *)
(***************************************************************************)
IndexLine(n) == [kind |-> "index", n |-> n]
TimingLine(start, end) == [kind |-> "timing", start |-> start, end |-> end]
TextLine(s) == [kind |-> "text", s |-> s]
BlankLine == TextLine(<<>>)
EmptyStr == <<BlankLine>>

SubtitleCue(index, start_time, end_time, text) ==
    [index |-> index, start_time |-> start_time, end_time |-> end_time, text |-> text]

\* the number of binary digits of n
RECURSIVE BitLen(_)
BitLen(n) == IF n = 0 THEN 0 ELSE 1 + BitLen(n \div 2)

IsPowerOfTwo(n) == n >= 1 /\ n = 2^(BitLen(n) - 1)

\* the remainder left after n more binary digits of r / 1000
RECURSIVE Remainder(_, _)
Remainder(r, n) == IF n = 0 THEN r ELSE Remainder((2 * r) % 1000, n - 1)

\* the position of the first 1 among the binary digits of r / 1000, 0 < r < 1000
RECURSIVE FirstDigit(_)
FirstDigit(r) == IF 2 * r >= 1000 THEN 1 ELSE 1 + FirstDigit(2 * r)

\* the binary digits behind the point that the 53-digit double nearest to
\* S + mmm / 1000 keeps
FractionDigits(S, mmm) ==
    IF S >= 1 THEN 53 - BitLen(S) ELSE 52 + FirstDigit(mmm)

\* int((seconds % 1) * 1000), line 30, in double arithmetic.  seconds is the
\* double nearest to S + mmm / 1000; r / 1000 of its last digit is what the
\* double lacks (r <= 500) or has too much (r > 500).  seconds % 1 is exact;
\* the product with 1000 is mmm less r * 2^-digits, and it is rounded to a
\* double: to mmm when it is within half a step of mmm, below mmm otherwise,
\* and then int() truncates.
Millis(seconds) ==
    LET S == seconds \div 1000
        mmm == seconds % 1000
        digits == FractionDigits(S, mmm)
        r == Remainder(mmm, digits)
        step == IF IsPowerOfTwo(mmm) THEN BitLen(mmm) - 55 ELSE BitLen(mmm) - 54
    IN  IF mmm = 0 \/ r = 0 \/ r > 500 THEN mmm
        ELSE IF step + digits >= 0 /\ r <= 2^(step + digits) THEN mmm
        ELSE mmm - 1

\* format_timestamp: HH:MM:SS,mmm as <<hours, minutes, secs, millis>>
format_timestamp(seconds) ==
    << seconds \div 3600000,
       (seconds % 3600000) \div 60000,
       (seconds % 60000) \div 1000,
       Millis(seconds) >>

\* parse_timestamp of HH:MM:SS,mmm: hours * 3600 + minutes * 60 + seconds,
\* where seconds = float("SS.mmm") is the double nearest to it.  For a
\* timestamp below one minute, the only ones the model feeds it, the sum adds
\* 0 and is that double.
parse_timestamp(timestamp) ==
    timestamp[1] * 3600000 + timestamp[2] * 60000 + timestamp[3] * 1000 + timestamp[4]

\* ' '.join(words) and s.split(' ') on character sequences
RECURSIVE JoinSpace(_)
JoinSpace(words) ==
    IF words = <<>> THEN <<>>
    ELSE IF Len(words) = 1 THEN words[1]
    ELSE words[1] \o <<" ">> \o JoinSpace(Tail(words))

RECURSIVE SplitSpace(_, _)
SplitSpace(s, cur) ==
    IF s = <<>> THEN <<cur>>
    ELSE IF Head(s) = " " THEN <<cur>> \o SplitSpace(Tail(s), <<>>)
    ELSE SplitSpace(Tail(s), Append(cur, Head(s)))

\* mutant: the word that closes a cue is not carried into the next one
GroupWord_DropsWord(st, words, i, max_chars, max_duration) ==
    LET word == words[i]
        word_length == Len(word.word)
        next_length == st.current_length + word_length
                         + (IF st.current_text # <<>> THEN 1 ELSE 0)
        duration == word.end - st.current_start
    IN  IF st.current_text # <<>> /\ (next_length > max_chars \/ duration > max_duration)
        THEN [cues |-> Append(st.cues,
                          SubtitleCue(st.cue_index, st.current_start, words[i - 1].end,
                                      <<TextLine(JoinSpace(st.current_text))>>)),
              cue_index |-> st.cue_index + 1,
              current_text |-> <<>>,
              current_start |-> word.start,
              current_length |-> 0]
        ELSE [st EXCEPT !.current_text = Append(@, word.word),
                        !.current_length = next_length]

\* mutant: a new cue keeps the start time of the one before
GroupWord_KeepsStart(st, words, i, max_chars, max_duration) ==
    LET word == words[i]
        word_length == Len(word.word)
        next_length == st.current_length + word_length
                         + (IF st.current_text # <<>> THEN 1 ELSE 0)
        duration == word.end - st.current_start
    IN  IF st.current_text # <<>> /\ (next_length > max_chars \/ duration > max_duration)
        THEN [cues |-> Append(st.cues,
                          SubtitleCue(st.cue_index, st.current_start, words[i - 1].end,
                                      <<TextLine(JoinSpace(st.current_text))>>)),
              cue_index |-> st.cue_index + 1,
              current_text |-> <<word.word>>,
              current_start |-> st.current_start,
              current_length |-> word_length]
        ELSE [st EXCEPT !.current_text = Append(@, word.word),
                        !.current_length = next_length]

\* mutant: only the character budget closes a cue
GroupWord_NoDurationTest(st, words, i, max_chars, max_duration) ==
    LET word == words[i]
        word_length == Len(word.word)
        next_length == st.current_length + word_length
                         + (IF st.current_text # <<>> THEN 1 ELSE 0)
    IN  IF st.current_text # <<>> /\ next_length > max_chars
        THEN [cues |-> Append(st.cues,
                          SubtitleCue(st.cue_index, st.current_start, words[i - 1].end,
                                      <<TextLine(JoinSpace(st.current_text))>>)),
              cue_index |-> st.cue_index + 1,
              current_text |-> <<word.word>>,
              current_start |-> word.start,
              current_length |-> word_length]
        ELSE [st EXCEPT !.current_text = Append(@, word.word),
                        !.current_length = next_length]

\* one turn of the loop of group_words_into_cues, lines 57-83
GroupWord(st, words, i, max_chars, max_duration) ==
    LET word == words[i]
        word_text == word.word
        word_length == Len(word_text)
        next_length == st.current_length + word_length
                         + (IF st.current_text # <<>> THEN 1 ELSE 0)
        duration == word.end - st.current_start
    IN  IF st.current_text # <<>> /\ (next_length > max_chars \/ duration > max_duration)
        THEN [cues |-> Append(st.cues,
                          SubtitleCue(st.cue_index, st.current_start, words[i - 1].end,
                                      <<TextLine(JoinSpace(st.current_text))>>)),
              cue_index |-> st.cue_index + 1,
              current_text |-> <<word_text>>,
              current_start |-> word.start,
              current_length |-> word_length]
        ELSE [st EXCEPT !.current_text = Append(@, word_text),
                        !.current_length = next_length]

RECURSIVE GroupWords(_, _, _, _, _)
GroupWords(st, words, i, max_chars, max_duration) ==
    IF i > Len(words) THEN st
    ELSE GroupWords(GroupWord(st, words, i, max_chars, max_duration),
                    words, i + 1, max_chars, max_duration)

\* group_words_into_cues; a word is [word, start, end]
group_words_into_cues(words, max_chars, max_duration) ==
    IF words = <<>> THEN <<>>
    ELSE LET st == GroupWords([cues |-> <<>>, cue_index |-> 1, current_text |-> <<>>,
                               current_start |-> words[1].start, current_length |-> 0],
                              words, 1, max_chars, max_duration)
         IN  IF st.current_text # <<>>
             THEN Append(st.cues,
                         SubtitleCue(st.cue_index, st.current_start,
                                     words[Len(words)].end,
                                     <<TextLine(JoinSpace(st.current_text))>>))
             ELSE st.cues

\* the serializer, lines 140-149 (and translation.py lines 224-233): for each
\* cue its index, its timing line, its text and a blank line, joined by '\n'
RECURSIVE srt_lines(_)
srt_lines(cues) ==
    IF cues = <<>> THEN <<>>
    ELSE LET cue == Head(cues) IN
         << IndexLine(cue.index),
            TimingLine(format_timestamp(cue.start_time), format_timestamp(cue.end_time)) >>
         \o cue.text \o <<BlankLine>> \o srt_lines(Tail(cues))

\* '\n'.join(srt_lines)
JoinLines(lines) == IF lines = <<>> THEN EmptyStr ELSE lines

\* srt_content.strip().split('\n\n'), each block stripped and split into
\* lines: the runs of lines between blank lines
RECURSIVE Blocks(_, _)
Blocks(lines, cur) ==
    IF lines = <<>> THEN (IF cur = <<>> THEN <<>> ELSE <<cur>>)
    ELSE IF Head(lines) = BlankLine
    THEN (IF cur = <<>> THEN <<>> ELSE <<cur>>) \o Blocks(Tail(lines), <<>>)
    ELSE Blocks(Tail(lines), Append(cur, Head(lines)))

\* the body of the loop of parse_srt, lines 169-191: the cue of a block, None
\* for a block that is skipped
ParseBlock(lines) ==
    IF Len(lines) < 3 THEN None
    ELSE IF lines[1].kind # "index" THEN None            \* int(): ValueError
    ELSE IF lines[2].kind # "timing" THEN None           \* IndexError, ValueError
    ELSE Some(SubtitleCue(lines[1].n,
                          parse_timestamp(lines[2].start),
                          parse_timestamp(lines[2].end),
                          SubSeq(lines, 3, Len(lines))))

RECURSIVE ParseBlocks(_)
ParseBlocks(blocks) ==
    IF blocks = <<>> THEN <<>>
    ELSE ParseBlock(Head(blocks)) \o ParseBlocks(Tail(blocks))

parse_srt(srt_content) == ParseBlocks(Blocks(srt_content, <<>>))

\* A timing line whose hours field has more digits than a double can hold
\* (over 308): int(parts[0]) reads it, and hours * 3600 + minutes * 60 +
\* seconds, an int plus a float, raises OverflowError in parse_timestamp
\* (line 217).
HugeTimingLine == [kind |-> "timing_huge"]

\* the exception that leaves the loop body of parse_srt for a block: the
\* handler at line 189 catches ValueError and IndexError only
ParseBlockRaised(lines) ==
    IF Len(lines) >= 3 /\ lines[1].kind = "index" /\ lines[2].kind = "timing_huge"
    THEN Some(Exc("OverflowError", <<"int too large to convert to float">>))
    ELSE None

\* the exception that leaves parse_srt, None when it returns parse_srt(..)
RECURSIVE ParseBlocksRaised(_)
ParseBlocksRaised(blocks) ==
    IF blocks = <<>> THEN None
    ELSE IF ParseBlockRaised(Head(blocks)) # None THEN ParseBlockRaised(Head(blocks))
    ELSE ParseBlocksRaised(Tail(blocks))

parse_srt_raised(srt_content) == ParseBlocksRaised(Blocks(srt_content, <<>>))

(***************************************************************************)
(* transcription.py                                                        *)
(***************************************************************************)
\* What running ffmpeg can do: return, raise ffmpeg.Error, or raise something
\* else (the ffmpeg binary is missing: FileNotFoundError from the subprocess).
\* NamedTemporaryFile can raise before the file exists.
ExtractOutcomes ==
    {None,
     Some(Exc("ffmpeg.Error", <<"ffmpeg error (see stderr output for detail)">>)),
     Some(Exc("FileNotFoundError", <<"No such file or directory: 'ffmpeg'">>)),
     Some(Exc("OSError", <<"No such file or directory: '/tmp/auto-caption'">>))}

\* extract_audio: [audio, raised]: whether the temporary file exists afterwards
\* and the exception that leaves the function
extract_audio(outcome) ==
    IF outcome = None
    THEN [audio |-> TRUE, raised |-> None]
    ELSE IF outcome[1].type = "OSError"               \* line 26, before the try
    THEN [audio |-> FALSE, raised |-> outcome]
    ELSE IF outcome[1].type = "ffmpeg.Error"          \* except ffmpeg.Error
    THEN [audio |-> FALSE,
          raised |-> Some(Exc("RuntimeError",
                       <<"Failed to extract audio from video: ">> \o Str(outcome[1])))]
    ELSE [audio |-> TRUE, raised |-> outcome]        \* not caught in extract_audio

\* What open() + requests.post() + raise_for_status() can do
PostOutcomes ==
    {None,
     Some(Exc("requests.ConnectionError", <<"Connection refused">>)),
     Some(Exc("requests.Timeout", <<"Read timed out. (read timeout=600)">>)),
     Some(Exc("requests.HTTPError", <<"500 Server Error">>))}

RequestsExceptions ==
    {"requests.ConnectionError", "requests.Timeout", "requests.HTTPError"}

\* the except clauses of transcribe_with_whisper, lines 183-193
whisper_except(e) ==
    IF e.type = "requests.ConnectionError"
    THEN Exc("ConnectionError", <<"Whisper server unavailable at ", WHISPER_SERVER_URL>>)
    ELSE IF e.type = "requests.Timeout"
    THEN Exc("RuntimeError", <<"Transcription timeout - video may be too long">>)
    ELSE IF e.type \in RequestsExceptions
    THEN Exc("RuntimeError", <<"Transcription failed: ">> \o Str(e))
    ELSE e

\* local fractions a progress event may carry, in hundredths
Fractions == {0, 100, 120}

\* an SRT text of one cue, as the Transcription Service writes it
SampleSrt ==
    << IndexLine(1), TimingLine(<<0, 0, 0, 0>>, <<0, 0, 1, 500>>),
       TextLine(<<"h", "i">>), BlankLine >>

\* the payload of a complete event: srt_content and language may be missing
Payloads ==
    [type : {"complete"},
     srt_content : {None, Some(EmptyStr), Some(SampleSrt)},
     language : {Some("es")}]

\* the lines response.iter_lines can yield
Lines ==
    {[type |-> "blank"], [type |-> "not_json"], [type |-> "no_type"], [type |-> "other"]}
    \cup [type : {"progress"}, progress : Fractions]
    \cup [type : {"error"}, error : {<<"CUDA out of memory">>}]
    \cup Payloads

\* mutant: the same share of the progress in both modes
TaskProgress_OneShare(whisper_progress, translate_to_english) ==
    1000 + whisper_progress * 65

\* task_progress = 0.10 + whisper_progress * (0.85 | 0.65)
TaskProgress(whisper_progress, translate_to_english) ==
    IF translate_to_english
    THEN 1000 + whisper_progress * 85
    ELSE 1000 + whisper_progress * 65

\* one turn of the loop over response.iter_lines, lines 129-158:
\* [ts, result, raised] from the registry, the result so far and the line
stream_line(ts, task_id, result, line, translate_to_english) ==
    CASE line.type = "blank" -> [ts |-> ts, result |-> result, raised |-> None]
      [] line.type = "not_json" -> [ts |-> ts, result |-> result, raised |-> None]
      [] line.type = "no_type" ->
            [ts |-> ts, result |-> result, raised |-> Some(Exc("KeyError", <<"'type'">>))]
      [] line.type = "progress" ->
            [ts |-> update_progress(ts, task_id,
                       TaskProgress(line.progress, translate_to_english), TRANSCRIBING),
             result |-> result, raised |-> None]
      [] line.type = "complete" -> [ts |-> ts, result |-> Some(line), raised |-> None]
      [] line.type = "error" ->
            [ts |-> ts, result |-> result, raised |-> Some(Exc("RuntimeError", line.error))]
      [] OTHER -> [ts |-> ts, result |-> result, raised |-> None]

\* mutant: a stream without a complete event yields a text all the same
stream_result_NoCompletionCheck(result, language) ==
    IF result = None
    THEN [srt_content |-> Some(SampleSrt), detected_language |-> language,
          raised |-> None]
    ELSE IF result[1].srt_content = None
    THEN [srt_content |-> None, detected_language |-> None,
          raised |-> Some(Exc("RuntimeError", <<"Invalid response from Whisper server">>))]
    ELSE [srt_content |-> result[1].srt_content,
          detected_language |-> IF result[1].language # None
                                THEN result[1].language ELSE language,
          raised |-> None]

\* after the loop, lines 160-181: [srt_content, detected_language, raised]
stream_result(result, language) ==
    IF result = None
    THEN [srt_content |-> None, detected_language |-> None,
          raised |-> Some(Exc("RuntimeError",
                       <<"No completion message received from Whisper server">>))]
    ELSE IF result[1].srt_content = None
    THEN [srt_content |-> None, detected_language |-> None,
          raised |-> Some(Exc("RuntimeError", <<"Invalid response from Whisper server">>))]
    ELSE [srt_content |-> result[1].srt_content,
          detected_language |-> IF result[1].language # None
                                THEN result[1].language ELSE language,
          raised |-> None]


(***************************************************************************)
(* translation.py: translate_srt as main.py calls it.  The function has    *)
(* five positional parameters (srt_content, source_lang, target_lang,      *)
(* deepl_api_key, libretranslate_url).                                     *)
(***************************************************************************)
TranslateSrtParams == 5

\* what a provider can answer: None when the call fails (translate_with_deepl
\* and translate_with_libretranslate then return ("", False)), the text DeepL
\* returns, the JSON reply of LibreTranslate (translatedText may be missing)
translate_with_deepl(text, outcome) ==
    IF outcome = None THEN <<EmptyStr, FALSE>> ELSE <<outcome[1], TRUE>>

translate_with_libretranslate(text, outcome) ==
    IF outcome = None THEN <<EmptyStr, FALSE>>
    ELSE <<Or(outcome[1].translatedText, EmptyStr), TRUE>>    \* result.get(.., '')

\* '\n'.join(texts)
RECURSIVE JoinTexts(_)
JoinTexts(texts) ==
    IF texts = <<>> THEN EmptyStr
    ELSE IF Len(texts) = 1 THEN texts[1]
    ELSE texts[1] \o JoinTexts(Tail(texts))

\* lines 211-219: pad with "" or trim to n lines
PadOrTrim(translated_lines, n) ==
    [i \in 1..n |-> IF i <= Len(translated_lines) THEN translated_lines[i] ELSE BlankLine]

\* lines 224-231: the cues with the translated lines
RECURSIVE Rebuild(_, _)
Rebuild(cues, translated_lines) ==
    IF cues = <<>> THEN <<>>
    ELSE LET cue == Head(cues) IN
         << IndexLine(cue.index),
            TimingLine(format_timestamp(cue.start_time), format_timestamp(cue.end_time)),
            Head(translated_lines),
            BlankLine >>
         \o Rebuild(Tail(cues), Tail(translated_lines))

\* translate_srt(*args): [srt_content, service_used, raised, calls]; calls are
\* the provider calls made, in order, each with the text it was given
translate_srt(args, deepl, libre) ==
    IF Len(args) # TranslateSrtParams
    THEN [srt_content |-> None, service_used |-> None, calls |-> <<>>,
          raised |-> Some(Exc("TypeError",
             <<"translate_srt() missing 1 required positional argument: 'libretranslate_url'">>))]
    ELSE
    LET srt_content == args[1]
        cues == parse_srt(srt_content)
        texts == [i \in 1..Len(cues) |-> cues[i].text]
        combined_text == JoinTexts(texts)
        first == translate_with_deepl(combined_text, deepl)
        second == translate_with_libretranslate(combined_text, libre)
        success == first[2] \/ second[2]
        translated_text == IF first[2] THEN first[1] ELSE second[1]
        service_used == IF first[2] THEN "deepl" ELSE "libretranslate"
        calls == << [provider |-> "deepl", text |-> combined_text] >>
                 \o (IF first[2] THEN <<>>
                     ELSE << [provider |-> "libretranslate", text |-> combined_text] >>)
        translated_lines == PadOrTrim(translated_text, Len(texts))
    IN  IF cues = <<>>
        THEN [srt_content |-> Some(srt_content), service_used |-> Some("none"),
              calls |-> <<>>, raised |-> None]
        ELSE IF ~success
        THEN [srt_content |-> None, service_used |-> None, calls |-> calls,
              raised |-> Some(Exc("RuntimeError",
                           <<"Both DeepL and LibreTranslate translation failed">>))]
        ELSE [srt_content |-> Some(JoinLines(Rebuild(cues, translated_lines))),
              service_used |-> Some(service_used), calls |-> calls, raised |-> None]

(***************************************************************************)
(* main.py: the worker pool and generate_caption_background.               *)
(*                                                                         *)
(* pc[t]: "idle" (no such task), "pending" (submitted, waiting for a       *)
(* worker), then the place of the run, then "done".                        *)
(***************************************************************************)
max_workers == 4

WrIdle == [op |-> "none"]
RdIdle == [at |-> "idle"]
NoCall == [op |-> "none"]

\* every variable but lastCall
serviceVars == <<tasks, pc, job, loc, files, audio, hist, lock, wr, rd>>

LocInit ==
    [existing_srt |-> None, translate_to_english |-> FALSE, result |-> None,
     srt_content |-> None, source_lang |-> None,
     translation_service |-> None]

HistInit ==
    [found |-> FALSE, read_failed |-> FALSE, updated |-> FALSE, whisper |-> 0,
     translate |-> 0, save |-> 0, original |-> None, caught |-> None,
     providers |-> None, calls |-> <<>>]

RunPlaces ==
    {"cache_check", "cache_read", "progress_05", "progress_10", "extract_audio",
     "whisper_post", "stream", "translating", "translate_srt", "saving",
     "save_srt_file", "complete_task"}

Running == {t \in DOMAIN pc : pc[t] \in RunPlaces}

Init ==
    /\ tasks = <<>>
    /\ pc = [t \in TaskIds |-> "idle"]
    /\ job = [t \in TaskIds |-> None]
    /\ loc = [t \in TaskIds |-> LocInit]
    /\ files \in FileSystems
    /\ audio = [t \in TaskIds |-> FALSE]
    /\ hist = [t \in TaskIds |-> HistInit]
    /\ lock = None
    /\ wr = WrIdle
    /\ rd = RdIdle
    /\ lastCall = NoCall

\* start_caption_task, lines 409-426, for a request that passed validation
Submit(request) ==
    /\ DOMAIN tasks # TaskIds
    /\ LET task_id == NewTaskId(tasks) IN
        /\ tasks' = create_task(tasks, task_id)
        /\ pc' = [pc EXCEPT ![task_id] = "pending"]
        /\ job' = [job EXCEPT ![task_id] = Some(request)]
    /\ UNCHANGED <<pollVars, loc, files, audio, hist>>

\* mutant: a run starts whether or not a worker is free
StartRun_NoLimit(t) ==
    /\ pc[t] = "pending"
    /\ pc' = [pc EXCEPT ![t] = "cache_check"]
    /\ UNCHANGED <<pollVars, tasks, job, loc, files, audio, hist>>

\* a pool worker takes the run from the executor's queue
StartRun(t) ==
    /\ pc[t] = "pending"
    /\ Cardinality(Running) < max_workers
    /\ pc' = [pc EXCEPT ![t] = "cache_check"]
    /\ UNCHANGED <<pollVars, tasks, job, loc, files, audio, hist>>

\* mutant: the handler logs the exception and does not call fail_task
Except_LogOnly(t, original, e, h) ==
    /\ tasks' = tasks
    /\ pc' = [pc EXCEPT ![t] = "done"]
    /\ loc' = [loc EXCEPT ![t] = LocInit]
    /\ hist' = [hist EXCEPT ![t] = [h EXCEPT !.original = Some(original), !.caught = Some(e)]]

\* mutant: the handler records the failure but the run goes on from where it was
Except_RunGoesOn(t, original, e, h) ==
    /\ tasks' = fail_task(tasks, t, Str(e))
    /\ pc' = pc
    /\ loc' = loc
    /\ hist' = [hist EXCEPT ![t] = [h EXCEPT !.original = Some(original), !.caught = Some(e)]]

\* except Exception as e: task_manager.fail_task(task_id, str(e)), lines 369-371
\* original: the exception first raised; e: the one that reaches the handler
Except(t, original, e, h) ==
    /\ tasks' = fail_task(tasks, t, Str(e))
    /\ pc' = [pc EXCEPT ![t] = "done"]
    /\ loc' = [loc EXCEPT ![t] = LocInit]
    /\ hist' = [hist EXCEPT ![t] = [h EXCEPT !.original = Some(original), !.caught = Some(e)]]

\* target_lang = translate_to or language
TargetLang(request) == Or(request.translate_to, request.language)

\* lines 268-274: find_existing_srt
CacheCheck(t) ==
    /\ pc[t] = "cache_check"
    /\ \E listdir_ok \in BOOLEAN :
       \E existing_srt \in find_existing_srt(files, job[t][1].video_path,
                                             TargetLang(job[t][1]), listdir_ok) :
        /\ loc' = [loc EXCEPT ![t].existing_srt = existing_srt]
        /\ hist' = [hist EXCEPT ![t].found = (existing_srt # None)]
        /\ pc' = [pc EXCEPT ![t] = IF existing_srt # None THEN "cache_read"
                                   ELSE "progress_05"]
    /\ UNCHANGED <<pollVars, tasks, job, files, audio>>

\* mutant: the return after complete_task is missing
CacheRead_NoReturn(t) ==
    /\ pc[t] = "cache_read"
    /\ \E os_error \in ReadOutcomes :
       LET existing_srt == loc[t].existing_srt[1]
           raised == read_srt_file(files, existing_srt, os_error) IN
        /\ tasks' = IF raised = None
                    THEN complete_task(tasks, t,
                            [caption_path |-> existing_srt, cached |-> TRUE,
                             translation_service |-> None])
                    ELSE tasks
        /\ pc' = [pc EXCEPT ![t] = "progress_05"]
        /\ loc' = loc
        /\ hist' = [hist EXCEPT ![t].read_failed = (raised # None)]
    /\ UNCHANGED <<pollVars, job, files, audio>>

\* mutant: a failed read of the cached file is not caught
CacheRead_ReadFailureFatal(t) ==
    /\ pc[t] = "cache_read"
    /\ \E os_error \in ReadOutcomes :
       LET existing_srt == loc[t].existing_srt[1]
           raised == read_srt_file(files, existing_srt, os_error) IN
        IF raised = None
        THEN /\ tasks' = complete_task(tasks, t,
                    [caption_path |-> existing_srt, cached |-> TRUE,
                     translation_service |-> None])
             /\ pc' = [pc EXCEPT ![t] = "done"]
             /\ loc' = [loc EXCEPT ![t] = LocInit]
             /\ hist' = hist
        ELSE Except(t, raised[1], raised[1], [hist[t] EXCEPT !.read_failed = TRUE])
    /\ UNCHANGED <<pollVars, job, files, audio>>

\* lines 276-290: read_srt_file, then complete_task and return, or fall through
CacheRead(t) ==
    /\ pc[t] = "cache_read"
    /\ \E os_error \in ReadOutcomes :
       LET existing_srt == loc[t].existing_srt[1]
           raised == read_srt_file(files, existing_srt, os_error) IN
        IF raised = None
        THEN /\ tasks' = complete_task(tasks, t,
                    [caption_path |-> existing_srt, cached |-> TRUE,
                     translation_service |-> None])
             /\ pc' = [pc EXCEPT ![t] = "done"]
             /\ loc' = [loc EXCEPT ![t] = LocInit]
             /\ hist' = hist
        ELSE /\ tasks' = tasks
             /\ pc' = [pc EXCEPT ![t] = "progress_05"]
             /\ loc' = loc
             /\ hist' = [hist EXCEPT ![t].read_failed = TRUE]
    /\ UNCHANGED <<pollVars, job, files, audio>>

\* the run's calls of task_manager.update_progress
UpdateProgress(t, progress, stage) ==
    /\ tasks' = update_progress(tasks, t, progress, stage)

\* lines 303-306: translate_to == 'en' and (language is None or language != 'en')
TranslateToEnglish(translate_to, language) ==
    translate_to = Some("en") /\ (language = None \/ language # Some("en"))

\* mutant: the first write carries the transcribing label
Progress05_Transcribing(t) ==
    /\ pc[t] = "progress_05"
    /\ UpdateProgress(t, 500, TRANSCRIBING)
    /\ hist' = [hist EXCEPT ![t].updated = TRUE]
    /\ pc' = [pc EXCEPT ![t] = "progress_10"]
    /\ UNCHANGED <<pollVars, job, loc, files, audio>>

\* line 293
Progress05(t) ==
    /\ pc[t] = "progress_05"
    /\ UpdateProgress(t, 500, EXTRACTING_AUDIO)
    /\ hist' = [hist EXCEPT ![t].updated = TRUE]
    /\ pc' = [pc EXCEPT ![t] = "progress_10"]
    /\ UNCHANGED <<pollVars, job, loc, files, audio>>

\* lines 295-306
Progress10(t) ==
    /\ pc[t] = "progress_10"
    /\ UpdateProgress(t, 1000, EXTRACTING_AUDIO)
    /\ hist' = [hist EXCEPT ![t].updated = TRUE]
    /\ loc' = [loc EXCEPT ![t].translate_to_english =
                  TranslateToEnglish(job[t][1].translate_to, Some(job[t][1].language))]
    /\ pc' = [pc EXCEPT ![t] = "extract_audio"]
    /\ UNCHANGED <<pollVars, job, files, audio>>

\* transcribe_video, line 229: extract_audio
ExtractAudio(t) ==
    /\ pc[t] = "extract_audio"
    /\ \E outcome \in ExtractOutcomes :
        LET r == extract_audio(outcome) IN
        /\ audio' = [audio EXCEPT ![t] = r.audio]
        /\ IF r.raised = None
           THEN /\ pc' = [pc EXCEPT ![t] = "whisper_post"]
                /\ UNCHANGED <<tasks, loc, hist>>
           ELSE Except(t, outcome[1], r.raised[1], hist[t])
    /\ UNCHANGED <<pollVars, job, files>>

\* mutant: the request is sent again after a failure
WhisperPost_Retry(t) ==
    /\ pc[t] = "whisper_post"
    /\ \E outcome \in PostOutcomes :
        LET h == [hist[t] EXCEPT !.whisper = Min(@ + 1, 2)] IN
        /\ pc' = [pc EXCEPT ![t] = IF outcome = None THEN "stream" ELSE "whisper_post"]
        /\ hist' = [hist EXCEPT ![t] = h]
        /\ UNCHANGED <<tasks, loc, audio>>
    /\ UNCHANGED <<pollVars, job, files>>

\* transcribe_with_whisper, lines 99-123: the request; on an exception the
\* finally clause removes the audio file
WhisperPost(t) ==
    /\ pc[t] = "whisper_post"
    /\ \E outcome \in PostOutcomes :
        LET h == [hist[t] EXCEPT !.whisper = @ + 1] IN
        IF outcome = None
        THEN /\ pc' = [pc EXCEPT ![t] = "stream"]
             /\ hist' = [hist EXCEPT ![t] = h]
             /\ UNCHANGED <<tasks, loc, audio>>
        ELSE /\ Except(t, outcome[1], whisper_except(outcome[1]), h)
             /\ audio' = [audio EXCEPT ![t] = FALSE]
    /\ UNCHANGED <<pollVars, job, files>>

\* one line of the stream, lines 129-158
StreamLine(t) ==
    /\ pc[t] = "stream"
    /\ \E line \in Lines :
        LET r == stream_line(tasks, t, loc[t].result, line, loc[t].translate_to_english)
            h == IF line.type = "progress"
                 THEN [hist[t] EXCEPT !.updated = TRUE] ELSE hist[t] IN
        IF r.raised = None
        THEN /\ tasks' = r.ts
             /\ loc' = [loc EXCEPT ![t].result = r.result]
             /\ hist' = [hist EXCEPT ![t] = h]
             /\ UNCHANGED <<pc, audio>>
        ELSE /\ Except(t, r.raised[1], whisper_except(r.raised[1]), h)
             /\ audio' = [audio EXCEPT ![t] = FALSE]
    /\ UNCHANGED <<pollVars, job, files>>

\* mutant: the condition without the comparison with the source language
NeedsTranslation_NoSourceCheck(translate_to, source_lang) ==
    /\ translate_to # None
    /\ translate_to # Some("en")

\* line 338: if translate_to and translate_to != 'en' and translate_to != source_lang
NeedsTranslation(translate_to, source_lang) ==
    /\ translate_to # None
    /\ translate_to # Some("en")
    /\ translate_to # source_lang

\* line 321: source_lang = detected_language if language is None else language
SourceLang(language, detected_language) ==
    IF language = None THEN detected_language ELSE language

\* the stream ends: transcribe_with_whisper lines 160-199, then main.py lines
\* 317-338
StreamEnd(t) ==
    /\ pc[t] = "stream"
    /\ LET language == Some(job[t][1].language)
           r == stream_result(loc[t].result, language)
           source_lang == SourceLang(language, r.detected_language)
       IN
        /\ audio' = [audio EXCEPT ![t] = FALSE]
        /\ IF r.raised # None
           THEN Except(t, r.raised[1], whisper_except(r.raised[1]), hist[t])
           ELSE IF r.srt_content = Some(EmptyStr)     \* if not srt_content
           THEN Except(t, Exc("ValueError", <<"Transcription produced no results">>),
                          Exc("ValueError", <<"Transcription produced no results">>), hist[t])
           ELSE /\ UpdateProgress(t, IF loc[t].translate_to_english THEN 9500 ELSE 7500,
                                  TRANSCRIBING)
                /\ hist' = [hist EXCEPT ![t].updated = TRUE]
                /\ loc' = [loc EXCEPT ![t].srt_content = r.srt_content,
                                      ![t].source_lang = source_lang,
                                      ![t].translation_service = Some("whisper"),
                                      ![t].result = None]
                /\ pc' = [pc EXCEPT ![t] =
                            IF NeedsTranslation(job[t][1].translate_to, source_lang)
                            THEN "translating" ELSE "saving"]
    /\ UNCHANGED <<pollVars, job, files>>


\* line 339
Translating(t) ==
    /\ pc[t] = "translating"
    /\ UpdateProgress(t, 7500, TRANSLATING)
    /\ hist' = [hist EXCEPT ![t].updated = TRUE]
    /\ pc' = [pc EXCEPT ![t] = "translate_srt"]
    /\ UNCHANGED <<pollVars, job, loc, files, audio>>

\* the text a provider returns for SampleSrt
SampleTranslation == <<TextLine(<<"h", "o", "l", "a">>)>>

\* the positional arguments of the call at lines 342-347
TranslateSrtArgs(srt_content, source_lang, translate_to) ==
    <<srt_content, source_lang, translate_to, LIBRETRANSLATE_URL>>

\* mutant: the run goes on to the save when the translation raised
TranslateSrt_FailureIgnored(t) ==
    /\ pc[t] = "translate_srt"
    /\ \E deepl_ok \in BOOLEAN, libre_ok \in BOOLEAN :
        LET r == translate_srt(TranslateSrtArgs(loc[t].srt_content[1],
                                   loc[t].source_lang[1], job[t][1].translate_to[1]),
                               IF deepl_ok THEN Some(SampleTranslation) ELSE None,
                               IF libre_ok
                               THEN Some([translatedText |-> Some(SampleTranslation)])
                               ELSE None)
            h == [hist[t] EXCEPT !.translate = @ + 1,
                                 !.providers = Some(<<deepl_ok, libre_ok>>),
                                 !.calls = @ \o r.calls] IN
        /\ UpdateProgress(t, 9500, TRANSLATING)
        /\ hist' = [hist EXCEPT ![t] = [h EXCEPT !.updated = TRUE]]
        /\ loc' = [loc EXCEPT ![t].translation_service = r.service_used]
        /\ pc' = [pc EXCEPT ![t] = "saving"]
    /\ UNCHANGED <<pollVars, job, files, audio>>

\* lines 342-350
TranslateSrt(t) ==
    /\ pc[t] = "translate_srt"
    /\ \E deepl_ok \in BOOLEAN, libre_ok \in BOOLEAN :
        LET r == translate_srt(TranslateSrtArgs(loc[t].srt_content[1],
                                   loc[t].source_lang[1], job[t][1].translate_to[1]),
                               IF deepl_ok THEN Some(SampleTranslation) ELSE None,
                               IF libre_ok
                               THEN Some([translatedText |-> Some(SampleTranslation)])
                               ELSE None)
            h == [hist[t] EXCEPT !.translate = @ + 1,
                                 !.providers = Some(<<deepl_ok, libre_ok>>),
                                 !.calls = @ \o r.calls] IN
        IF r.raised # None
        THEN Except(t, r.raised[1], r.raised[1], h)
        ELSE /\ UpdateProgress(t, 9500, TRANSLATING)
             /\ hist' = [hist EXCEPT ![t] = [h EXCEPT !.updated = TRUE]]
             /\ loc' = [loc EXCEPT ![t].srt_content = r.srt_content,
                                   ![t].translation_service = r.service_used]
             /\ pc' = [pc EXCEPT ![t] = "saving"]
    /\ UNCHANGED <<pollVars, job, files, audio>>

\* line 353
Saving(t) ==
    /\ pc[t] = "saving"
    /\ UpdateProgress(t, 9700, SAVING)
    /\ hist' = [hist EXCEPT ![t].updated = TRUE]
    /\ pc' = [pc EXCEPT ![t] = "save_srt_file"]
    /\ UNCHANGED <<pollVars, job, loc, files, audio>>

SaveOutcomes == {None, Some(Exc("OSError", <<"Read-only file system">>))}

\* line 356
SaveSrtFile(t) ==
    /\ pc[t] = "save_srt_file"
    /\ \E os_error \in SaveOutcomes :
        LET r == save_srt_file(files, job[t][1].video_path, TargetLang(job[t][1]), os_error)
            h == [hist[t] EXCEPT !.save = @ + 1] IN
        IF r.raised # None
        THEN /\ Except(t, os_error[1], r.raised[1], h)
             /\ files' = files
        ELSE /\ files' = r.files
             /\ hist' = [hist EXCEPT ![t] = h]
             /\ loc' = [loc EXCEPT ![t].existing_srt = r.path]
             /\ pc' = [pc EXCEPT ![t] = "complete_task"]
             /\ tasks' = tasks
    /\ UNCHANGED <<pollVars, job, audio>>

\* lines 361-365
CompleteTask(t) ==
    /\ pc[t] = "complete_task"
    /\ tasks' = complete_task(tasks, t,
          [caption_path |-> loc[t].existing_srt[1], cached |-> FALSE,
           translation_service |-> loc[t].translation_service])
    /\ pc' = [pc EXCEPT ![t] = "done"]
    /\ loc' = [loc EXCEPT ![t] = LocInit]
    /\ UNCHANGED <<pollVars, job, files, audio, hist>>

\* one step of the background run of task t
Run(t) ==
    \/ StartRun(t)
    \/ CacheCheck(t)
    \/ CacheRead(t)
    \/ Progress05(t)
    \/ Progress10(t)
    \/ ExtractAudio(t)
    \/ WhisperPost(t)
    \/ StreamLine(t)
    \/ StreamEnd(t)
    \/ Translating(t)
    \/ TranslateSrt(t)
    \/ Saving(t)
    \/ SaveSrtFile(t)
    \/ CompleteTask(t)

Next ==
    \/ \E request \in Requests : Submit(request)
    \/ \E t \in TaskIds : Run(t)

Spec == Init /\ [][Next]_vars

\* A pool worker that can take a step of a run takes it, and every stream the
\* Transcription Service sends ends (the call returns, errors or times out).
SpecFair ==
    /\ Spec
    /\ \A t \in TaskIds : WF_vars(Run(t)) /\ WF_vars(StreamEnd(t))


(***************************************************************************)
(* SpecRegistry: the Task Registry on its own, its methods called in any   *)
(* order with any arguments (task_manager.py).                             *)
(***************************************************************************)
RegIds == 0..MaxTasks        \* 0 is an id no task has
RegProgressArgs == {-500, 5000, 12000, NaN}
RegStages == {EXTRACTING_AUDIO, TRANSCRIBING, SAVING}
RegResults ==
    {[caption_path |-> SrtFile(v, "en", ""), cached |-> c,
      translation_service |-> Some("whisper")] : v \in Videos, c \in BOOLEAN}
RegErrors == {<<"Transcription produced no results">>,
              <<"Invalid response from Whisper server">>}

RegCreateTask ==
    /\ DOMAIN tasks # TaskIds
    /\ tasks' = create_task(tasks, NewTaskId(tasks))
    /\ UNCHANGED <<pollVars, pc, job, loc, files, audio, hist>>

RegUpdateProgress(id, progress, stage) ==
    /\ tasks' = update_progress(tasks, id, progress, stage)
    /\ UNCHANGED <<pollVars, pc, job, loc, files, audio, hist>>

RegCompleteTask(id, result) ==
    /\ tasks' = complete_task(tasks, id, result)
    /\ UNCHANGED <<pollVars, pc, job, loc, files, audio, hist>>

RegFailTask(id, error) ==
    /\ tasks' = fail_task(tasks, id, error)
    /\ UNCHANGED <<pollVars, pc, job, loc, files, audio, hist>>

NextRegistry ==
    \/ RegCreateTask
    \/ \E id \in RegIds, progress \in RegProgressArgs, stage \in RegStages :
          RegUpdateProgress(id, progress, stage)
    \/ \E id \in RegIds, result \in RegResults : RegCompleteTask(id, result)
    \/ \E id \in RegIds, error \in RegErrors : RegFailTask(id, error)

\* the registry after construction; no file matters
InitRegistry == Init /\ files = {}

SpecRegistry == InitRegistry /\ [][NextRegistry]_vars

(***************************************************************************)
(* SpecPool: the worker pool on its own (main.py line 30 and                *)
(* start_caption_task): more jobs than workers, each run reduced to its     *)
(* first registry write and its last one.                                   *)
(***************************************************************************)
PoolIds == 1..MaxPoolTasks

InitPool ==
    /\ files = {}
    /\ tasks = <<>>
    /\ pc = [t \in PoolIds |-> "idle"]
    /\ job = [t \in TaskIds |-> None]
    /\ loc = [t \in TaskIds |-> LocInit]
    /\ audio = [t \in TaskIds |-> FALSE]
    /\ hist = [t \in TaskIds |-> HistInit]
    /\ lock = None
    /\ wr = WrIdle
    /\ rd = RdIdle
    /\ lastCall = NoCall

\* start_caption_task, lines 409-426: create_task, executor.submit, return
PoolSubmit ==
    /\ DOMAIN tasks # PoolIds
    /\ LET task_id == CHOOSE id \in PoolIds \ DOMAIN tasks :
                          \A o \in PoolIds \ DOMAIN tasks : id <= o IN
        /\ tasks' = create_task(tasks, task_id)
        /\ pc' = [pc EXCEPT ![task_id] = "pending"]
    /\ UNCHANGED <<pollVars, job, loc, files, audio, hist>>

\* the first registry write of a run, line 293
PoolFirstWrite(t) ==
    /\ pc[t] = "cache_check"
    /\ tasks' = update_progress(tasks, t, 500, EXTRACTING_AUDIO)
    /\ pc' = [pc EXCEPT ![t] = "progress_10"]
    /\ UNCHANGED <<pollVars, job, loc, files, audio, hist>>

\* the last registry write of a run: complete_task (lines 281-286, 359-367)
\* or fail_task (lines 369-371); the worker is free again
PoolEnd(t) ==
    /\ pc[t] \in RunPlaces
    /\ \/ \E result \in RegResults : tasks' = complete_task(tasks, t, result)
       \/ tasks' = fail_task(tasks, t, <<"Audio extraction failed">>)
    /\ pc' = [pc EXCEPT ![t] = "done"]
    /\ UNCHANGED <<pollVars, job, loc, files, audio, hist>>

NextPool ==
    \/ PoolSubmit
    \/ \E t \in PoolIds : StartRun(t)
    \/ \E t \in PoolIds : PoolFirstWrite(t)
    \/ \E t \in PoolIds : PoolEnd(t)

SpecPool == InitPool /\ [][NextPool]_vars

(***************************************************************************)
(* SpecSubmit: the submission endpoint on its own (main.py                 *)
(* start_caption_task with the validators of models.py and                 *)
(* utils.validate_video_path), given any request body and any file at the  *)
(* path.                                                                   *)
(***************************************************************************)
\* what lies at the video path
PathStates == {"missing", "directory", "unreadable", "file"}

\* the request body as sent: fields may be missing, codes may be unknown
RawLangs == {None} \cup {Some(l) : l \in Langs \cup {"xx"}}
RawRequests ==
    [video_path : {None} \cup {Some(v) : v \in Videos},
     language : RawLangs, translate_to : RawLangs]

\* CaptionRequest(**body): the request, or None on a ValidationError
CaptionRequest(raw) ==
    IF raw.video_path = None \/ raw.language = None        \* Field(...): required
    THEN None
    ELSE IF raw.language[1] \notin Langs                    \* validate_language
    THEN None
    ELSE IF raw.translate_to # None /\ raw.translate_to[1] \notin Langs
    THEN None                                               \* validate_translate_to
    ELSE Some([video_path |-> raw.video_path[1], language |-> raw.language[1],
               translate_to |-> raw.translate_to])

\* mutant: validate_video_path without the os.access test
validate_video_path_NoAccessTest(state) ==
    IF state = "missing"
    THEN Some(Exc("FileNotFoundError", <<"Video file not found">>))
    ELSE IF state = "directory"
    THEN Some(Exc("ValueError", <<"Path is not a file">>))
    ELSE None

\* utils.validate_video_path: the exception raised, if any
validate_video_path(state) ==
    IF state = "missing"                                    \* not os.path.exists
    THEN Some(Exc("FileNotFoundError", <<"Video file not found">>))
    ELSE IF state = "directory"                             \* not os.path.isfile
    THEN Some(Exc("ValueError", <<"Path is not a file">>))
    ELSE IF state = "unreadable"                            \* not os.access
    THEN Some(Exc("PermissionError", <<"Video file is not readable">>))
    ELSE None

\* the response of the endpoint
Response(raw, state, status_code, task_id) ==
    [op |-> "start_caption_task", raw |-> raw, state |-> state,
     status_code |-> status_code, task_id |-> task_id]

\* POST /auto-caption/start, lines 374-426
StartCaptionTask(raw, state) ==
    LET parsed == CaptionRequest(raw)
        e == validate_video_path(state) IN
    /\ IF parsed = None
       THEN /\ lastCall' = Response(raw, state, 422, None)
            /\ UNCHANGED <<tasks, pc, job>>
       ELSE IF e # None
       THEN /\ lastCall' = Response(raw, state,
                               IF e[1].type = "FileNotFoundError" THEN 404 ELSE 400, None)
            /\ UNCHANGED <<tasks, pc, job>>
       ELSE /\ DOMAIN tasks # TaskIds
            /\ LET task_id == NewTaskId(tasks) IN
                /\ tasks' = create_task(tasks, task_id)
                /\ pc' = [pc EXCEPT ![task_id] = "pending"]
                /\ job' = [job EXCEPT ![task_id] = parsed]
                /\ lastCall' = Response(raw, state, 200, Some(task_id))
    /\ UNCHANGED <<lock, wr, rd, loc, files, audio, hist>>

NextSubmit ==
    \E raw \in RawRequests, state \in PathStates : StartCaptionTask(raw, state)

SpecSubmit == InitRegistry /\ [][NextSubmit]_vars

(***************************************************************************)
(* SpecWhisper: the generator stream_transcribe_srt of the Transcription   *)
(* Service (whisper_http_server.py lines 92-159), one request with a       *)
(* task_id.  lastCall holds the generator: the segments still to decode,   *)
(* the events yielded so far, the entry of task_states.  Times are in      *)
(* milliseconds, fractions in 1/10000.                                     *)
(***************************************************************************)
\* info.duration and segment.end
Durations == {0, 1000, 2004, 3004}
SegmentEnds == {500, 1000, 2004, 3004}

\* the segments of an audio of the given duration: ends increase and none is
\* after the end of the audio
SegmentLists(duration) ==
    {segs \in UNION {[1..n -> SegmentEnds] : n \in 0..MaxSegments} :
        /\ \A i \in 1..Len(segs) : segs[i] <= duration
        /\ \A i \in 1..(Len(segs) - 1) : segs[i] < segs[i + 1]}

\* round(info.duration, 2), for durations that are no tie
Round2(duration) == ((duration + 5) \div 10) * 10

\* segment.end / total_duration if total_duration > 0 else 0.0
SegmentProgress(end, total_duration) ==
    IF total_duration > 0 THEN (end * ProgressOne) \div total_duration ELSE ProgressZero

\* except Exception as e: fail_task, yield the error event, raise
WhisperExcept(g, e) ==
    [g EXCEPT !.task_state = [@ EXCEPT !.status = "failed", !.error = Some(e)],
              !.out = @ \o <<[type |-> "error", error |-> e]>>,
              !.at = "closed"]

\* the request arrives; lines 99-104, up to the loop
WhisperOpen(duration, segments, raises) ==
    /\ lastCall = NoCall
    /\ LET g == [op |-> "stream_transcribe_srt", segments |-> segments,
                 total_duration |-> Round2(duration), segment_count |-> 0,
                 task_state |-> [status |-> "none", progress |-> ProgressZero,
                                 error |-> None],
                 out |-> <<>>, at |-> "loop"] IN
        lastCall' = IF raises
                    THEN WhisperExcept(g, <<"type NoneType doesn't define __round__ method">>)
                    ELSE [g EXCEPT !.task_state.status = "processing"]
    /\ UNCHANGED serviceVars

\* one turn of the loop over the segments, lines 106-127; decoding may raise
WhisperSegment(raises) ==
    /\ lastCall.op = "stream_transcribe_srt"
    /\ lastCall.at = "loop"
    /\ lastCall.segments # <<>>
    /\ LET end == Head(lastCall.segments)
           progress == SegmentProgress(end, lastCall.total_duration) IN
        lastCall' = IF raises
                    THEN WhisperExcept(lastCall, <<"CUDA out of memory">>)
                    ELSE [lastCall EXCEPT
                            !.segments = Tail(@),
                            !.segment_count = @ + 1,
                            !.task_state.progress = progress,
                            !.out = @ \o <<[type |-> "progress", progress |-> progress]>>]
    /\ UNCHANGED serviceVars

\* after the loop, lines 129-150: complete_task and the complete event
WhisperComplete(raises) ==
    /\ lastCall.op = "stream_transcribe_srt"
    /\ lastCall.at = "loop"
    /\ lastCall.segments = <<>>
    /\ lastCall' = IF raises
                   THEN WhisperExcept(lastCall, <<"Object of type float32 is not JSON serializable">>)
                   ELSE [lastCall EXCEPT
                           !.task_state = [@ EXCEPT !.status = "completed",
                                                   !.progress = ProgressOne],
                           !.out = @ \o <<[type |-> "complete",
                                           segment_count |-> lastCall.segment_count]>>,
                           !.at = "closed"]
    /\ UNCHANGED serviceVars

NextWhisper ==
    \/ \E duration \in Durations, raises \in BOOLEAN :
          \E segments \in SegmentLists(duration) : WhisperOpen(duration, segments, raises)
    \/ \E raises \in BOOLEAN : WhisperSegment(raises)
    \/ \E raises \in BOOLEAN : WhisperComplete(raises)

SpecWhisper == InitRegistry /\ [][NextWhisper]_vars

(***************************************************************************)
(* SpecRelay: one progress event read by the stream loop of                *)
(* transcribe_with_whisper (transcription.py lines 136-148), for any       *)
(* fraction and either mode.                                               *)
(***************************************************************************)
\* the fraction of the event, in hundredths: below 0, from 0 to 1, above 1
RelayFractions == -20..120

\* the registry when the stream is read: the task at 0.10, main.py line 295
RelayRegistry(id) ==
    update_progress(create_task(<<>>, id), id, 1000, EXTRACTING_AUDIO)

RelayProgress(whisper_progress, translate_to_english) ==
    /\ lastCall = NoCall
    /\ lastCall' = [op |-> "progress_event", progress |-> whisper_progress,
                    translate_to_english |-> translate_to_english,
                    ret |-> stream_line(RelayRegistry(1), 1, None,
                                        [type |-> "progress", progress |-> whisper_progress],
                                        translate_to_english)]
    /\ UNCHANGED serviceVars

NextRelay ==
    \E whisper_progress \in RelayFractions, translate_to_english \in BOOLEAN :
        RelayProgress(whisper_progress, translate_to_english)

SpecRelay == InitRegistry /\ [][NextRelay]_vars

(***************************************************************************)
(* SpecPoll: a status poll (main.py get_task_status: get_task, then        *)
(* Task.to_dict) running in the server thread while a worker thread is in  *)
(* a registry call on the same task.  A registry method holds the lock     *)
(* from its first assignment to its last; to_dict reads the Task object    *)
(* get_task returned after get_task has released the lock.                 *)
(***************************************************************************)
PollCalls ==
    {[op |-> "update_progress", writes |-> update_progress_writes(p, st)] :
        p \in {1000, 9700}, st \in {EXTRACTING_AUDIO, SAVING}}
    \cup {[op |-> "complete_task", writes |-> complete_task_writes(r)] : r \in RegResults}
    \cup {[op |-> "fail_task", writes |-> fail_task_writes(e)] : e \in RegErrors}

\* dataclasses.asdict reads the fields in the order the dataclass declares them
TaskFields == <<"status", "progress", "stage", "error", "result">>

PollCreate ==
    /\ lock = None
    /\ DOMAIN tasks # TaskIds
    /\ tasks' = create_task(tasks, NewTaskId(tasks))
    /\ UNCHANGED <<pollVars, pc, job, loc, files, audio, hist>>

\* the worker enters a registry method: with self.lock
WAcquire(id, call) ==
    /\ lock = None
    /\ wr = WrIdle
    /\ id \in DOMAIN tasks
    /\ tasks[id].status \notin {COMPLETED, FAILED}   \* the run has not ended
    /\ lock' = Some("worker")
    /\ wr' = [op |-> call.op, id |-> id, writes |-> call.writes]
    /\ UNCHANGED <<tasks, rd, pc, job, loc, files, audio, hist, lastCall>>

\* one attribute assignment of the method
WWrite ==
    /\ wr # WrIdle
    /\ wr.writes # <<>>
    /\ tasks' = [tasks EXCEPT ![wr.id] = Assign(@, Head(wr.writes))]
    /\ wr' = [wr EXCEPT !.writes = Tail(@)]
    /\ UNCHANGED <<lock, rd, pc, job, loc, files, audio, hist, lastCall>>

\* the method leaves the with block
WRelease ==
    /\ wr # WrIdle
    /\ wr.writes = <<>>
    /\ lock' = None
    /\ wr' = WrIdle
    /\ UNCHANGED <<tasks, rd, pc, job, loc, files, audio, hist, lastCall>>

\* get_task: with self.lock: return self.tasks.get(task_id) -- the Task object
RGetTask(id) ==
    /\ rd = RdIdle
    /\ lock = None
    /\ get_task(tasks, id) # None
    /\ rd' = [at |-> "asdict", id |-> id, fields |-> TaskFields, data |-> <<>>]
    /\ UNCHANGED <<tasks, lock, wr, pc, job, loc, files, audio, hist, lastCall>>

\* to_dict, line 39: asdict copies one field of the Task
RAsdict ==
    /\ rd.at = "asdict"
    /\ LET f == Head(rd.fields) IN
        rd' = [rd EXCEPT !.data = @ @@ (f :> tasks[rd.id][f]),
                         !.fields = Tail(@),
                         !.at = IF Tail(rd.fields) = <<>> THEN "status_value" ELSE "asdict"]
    /\ UNCHANGED <<tasks, lock, wr, pc, job, loc, files, audio, hist, lastCall>>

\* to_dict, lines 41-42: data['status'] = self.status.value
RStatusValue ==
    /\ rd.at = "status_value"
    /\ rd' = [rd EXCEPT !.data = [@ EXCEPT !["status"] = tasks[rd.id].status],
                        !.at = "stage_value"]
    /\ UNCHANGED <<tasks, lock, wr, pc, job, loc, files, audio, hist, lastCall>>

\* to_dict, lines 43-45: if self.stage: data['stage'] = self.stage.value; return
RStageValue ==
    /\ rd.at = "stage_value"
    /\ rd' = [rd EXCEPT !.data = IF tasks[rd.id].stage # None
                                 THEN [@ EXCEPT !["stage"] = tasks[rd.id].stage]
                                 ELSE @,
                        !.at = "responded"]
    /\ UNCHANGED <<tasks, lock, wr, pc, job, loc, files, audio, hist, lastCall>>

\* the response is sent; the client polls again later
RRespond ==
    /\ rd.at = "responded"
    /\ rd' = RdIdle
    /\ UNCHANGED <<tasks, lock, wr, pc, job, loc, files, audio, hist, lastCall>>

NextPoll ==
    \/ PollCreate
    \/ \E id \in TaskIds, call \in PollCalls : WAcquire(id, call)
    \/ WWrite
    \/ WRelease
    \/ \E id \in TaskIds : RGetTask(id)
    \/ RAsdict
    \/ RStatusValue
    \/ RStageValue
    \/ RRespond

SpecPoll == InitRegistry /\ [][NextPoll]_vars

(***************************************************************************)
(* SpecLock: the worker threads from the request to the Transcription      *)
(* Service on (transcription.py lines 115-161, main.py lines 317-371) and  *)
(* the status poll, with the registry lock.  pc[t] is where the thread of  *)
(* run t is: blocked in requests.post ("whisper_post"), blocked in         *)
(* iter_lines for the next line ("stream"), inside a registry method       *)
(* ("registry"), between the end of the stream and its last registry call  *)
(* ("after_stream"), or "done".  lock is None or Some(t), the run whose    *)
(* thread holds it; wr.back is where that thread goes on after the method. *)
(***************************************************************************)
NetworkPlaces == {"whisper_post", "stream"}

\* start_caption_task and the run up to line 115
LockStart ==
    /\ lock = None
    /\ DOMAIN tasks # TaskIds
    /\ tasks' = create_task(tasks, NewTaskId(tasks))
    /\ pc' = [pc EXCEPT ![NewTaskId(tasks)] = "whisper_post"]
    /\ UNCHANGED <<pollVars, job, loc, files, audio, hist>>

\* the thread of run t enters a registry method: with self.lock
LockCall(t, op, writes, back) ==
    /\ lock = None
    /\ wr = WrIdle
    /\ lock' = Some(t)
    /\ wr' = [op |-> op, id |-> t, writes |-> writes, back |-> back]
    /\ pc' = [pc EXCEPT ![t] = "registry"]
    /\ UNCHANGED <<tasks, rd, job, loc, files, audio, hist, lastCall>>

\* requests.post returns or raises (then the handler calls fail_task)
LockPost(t) ==
    /\ pc[t] = "whisper_post"
    /\ \E outcome \in PostOutcomes :
        IF outcome = None
        THEN /\ pc' = [pc EXCEPT ![t] = "stream"]
             /\ UNCHANGED <<tasks, pollVars, job, loc, files, audio, hist>>
        ELSE LockCall(t, "fail_task",
                      fail_task_writes(Str(whisper_except(outcome[1]))), "done")

\* iter_lines yields a line: a progress event (update_progress, line 148), a
\* complete event (main.py line 332 after the loop) or an error event
LockLine(t) ==
    /\ pc[t] = "stream"
    /\ \/ LockCall(t, "update_progress",
                    update_progress_writes(TaskProgress(50, FALSE), TRANSCRIBING), "stream")
       \/ LockCall(t, "update_progress",
                    update_progress_writes(7500, TRANSCRIBING), "after_stream")
       \/ LockCall(t, "fail_task", fail_task_writes(<<"CUDA out of memory">>), "done")

\* the rest of the run, reduced to its last registry call
LockAfterStream(t) ==
    /\ pc[t] = "after_stream"
    /\ \/ \E result \in RegResults :
            LockCall(t, "complete_task", complete_task_writes(result), "done")
       \/ \E error \in RegErrors : LockCall(t, "fail_task", fail_task_writes(error), "done")

\* mutant: the method returns without leaving the with block
LockRelease_KeepsLock ==
    /\ wr # WrIdle
    /\ wr.writes = <<>>
    /\ wr' = WrIdle
    /\ pc' = [pc EXCEPT ![wr.id] = wr.back]
    /\ UNCHANGED <<tasks, lock, rd, job, loc, files, audio, hist, lastCall>>

\* the method leaves the with block and returns
LockRelease ==
    /\ wr # WrIdle
    /\ wr.writes = <<>>
    /\ lock' = None
    /\ wr' = WrIdle
    /\ pc' = [pc EXCEPT ![wr.id] = wr.back]
    /\ UNCHANGED <<tasks, rd, job, loc, files, audio, hist, lastCall>>

NextLock ==
    \/ LockStart
    \/ \E t \in DOMAIN tasks : LockPost(t) \/ LockLine(t) \/ LockAfterStream(t)
    \/ WWrite
    \/ LockRelease
    \/ \E id \in TaskIds : RGetTask(id)
    \/ RAsdict
    \/ RStatusValue
    \/ RStageValue
    \/ RRespond

SpecLock == InitRegistry /\ [][NextLock]_vars

(***************************************************************************)
(* SpecCache: background runs one after the other (main.py lines 268-371), *)
(* each reduced to what it does with the subtitle files: the cache lookup  *)
(* and read, and the save.  lastCall.runs holds what each run ended with:  *)
(* its video and target language, the status and the result of its task,  *)
(* whether it called the Transcription Service, and whether the file       *)
(* system failed it (os.listdir or the read of the file found raised for a *)
(* reason of the environment).                                             *)
(***************************************************************************)
\* a video path with a directory part, and one without (the file lies in the
\* working directory of the service)
BareVideo == "movie.mp4"
CacheVideos == Videos \cup {BareVideo}
CacheRequests ==
    [video_path : CacheVideos, language : Langs,
     translate_to : {None} \cup {Some(l) : l \in Langs}]

\* os.path.dirname(video_path)
DirName(video_path) == IF video_path = BareVideo THEN "" ELSE "/data"

\* os.listdir(video_dir) returns: os.listdir('') raises FileNotFoundError
ListdirOk(video_path, env_ok) == DirName(video_path) # "" /\ env_ok

RunsSoFar == IF lastCall = NoCall THEN <<>> ELSE lastCall.runs

RunEnd(request, status, cached, path, whisper, fault) ==
    [video_path |-> request.video_path, target_lang |-> TargetLang(request),
     status |-> status, cached |-> cached, caption_path |-> path, whisper |-> whisper,
     fault |-> fault]

CacheRun(request, env_ok, read_error, whisper_ok, save_error) ==
    /\ Len(RunsSoFar) < MaxRuns
    /\ \E existing_srt \in find_existing_srt(files, request.video_path, TargetLang(request),
                                             ListdirOk(request.video_path, env_ok)) :
        LET hit == /\ existing_srt # None
                   /\ read_srt_file(files, existing_srt[1], read_error) = None
            saved == save_srt_file(files, request.video_path, TargetLang(request),
                                   save_error)
            fault == ~env_ok \/ (existing_srt # None /\ read_error # None)
            end ==
              IF hit THEN RunEnd(request, COMPLETED, Some(TRUE), existing_srt, FALSE, fault)
              ELSE IF \/ ~whisper_ok
                      \/ NeedsTranslation(request.translate_to, Some(request.language))
                      \/ saved.raised # None
              THEN RunEnd(request, FAILED, None, None, TRUE, fault)
              ELSE RunEnd(request, COMPLETED, Some(FALSE), saved.path, TRUE, fault)
        IN  /\ lastCall' = [op |-> "runs", runs |-> Append(RunsSoFar, end)]
            /\ files' = IF end.cached = Some(FALSE) THEN saved.files ELSE files
    /\ UNCHANGED <<tasks, pc, job, loc, audio, hist, lock, wr, rd>>

NextCache ==
    \E request \in CacheRequests, env_ok \in BOOLEAN, read_error \in ReadOutcomes,
       whisper_ok \in BOOLEAN, save_error \in SaveOutcomes :
        CacheRun(request, env_ok, read_error, whisper_ok, save_error)

SpecCache == Init /\ [][NextCache]_vars

(***************************************************************************)
(* SpecCues and SpecCodec: group_words_into_cues, the serializer and       *)
(* parse_srt (subtitle.py) applied to inputs of a bounded size.            *)
(***************************************************************************)

WordTexts == {<<"a">>, <<"b", "c">>, <<"d", "e", "f", "g">>}
\* the silence before a word, in milliseconds; a word lasts half a second.
\* All times are multiples of 0.5 s, which doubles hold and subtract exactly.
Pauses == {0, 3000}
WordChoices == [word : WordTexts, pause : Pauses]
CharBudgets == {1, 3, 42}
DurationBudgets == {400, 1000, 5000}

\* the word records of Vosk for the chosen texts and pauses, from time t on
RECURSIVE TimedWords(_, _)
TimedWords(choices, t) ==
    IF choices = <<>> THEN <<>>
    ELSE LET start == t + Head(choices).pause IN
         << [word |-> Head(choices).word, start |-> start, end |-> start + 500] >>
         \o TimedWords(Tail(choices), start + 500)

WordLists ==
    {TimedWords(choices, 0) :
        choices \in UNION {[1..n -> WordChoices] : n \in 0..MaxWords}}

\* one call of the function, on arguments drawn from the sets above
Group(words, max_chars, max_duration) ==
    /\ lastCall = NoCall
    /\ lastCall' = [op |-> "group_words_into_cues", words |-> words,
                    max_chars |-> max_chars, max_duration |-> max_duration,
                    cues |-> group_words_into_cues(words, max_chars, max_duration)]
    /\ UNCHANGED serviceVars

NextCues ==
    /\ lastCall = NoCall
    /\ \E words \in WordLists, max_chars \in CharBudgets, max_duration \in DurationBudgets :
          Group(words, max_chars, max_duration)

SpecCues == InitRegistry /\ [][NextCues]_vars

\* cue times below one minute, in milliseconds
CueTimes == {0, 500, 1000, 1001, 1002, 2500}
CueTexts ==
    { <<TextLine(<<"h", "i">>)>>,
      <<TextLine(<<"h", "i">>), TextLine(<<"y", "o">>)>> }
CueShapes ==
    {sh \in [start_time : CueTimes, end_time : CueTimes, text : CueTexts] :
        sh.start_time < sh.end_time}

\* cue lists with valid timings: indices from 1, end after start, no overlap
CueLists ==
    { [i \in 1..Len(shs) |->
          SubtitleCue(i, shs[i].start_time, shs[i].end_time, shs[i].text)] :
      shs \in {x \in UNION {[1..n -> CueShapes] : n \in 1..MaxCues} :
                  \A i \in 1..(Len(x) - 1) : x[i].end_time <= x[i + 1].start_time} }

\* HH:MM:SS,mmm written for K milliseconds
Timestamp(K) ==
    <<K \div 3600000, (K % 3600000) \div 60000, (K % 60000) \div 1000, K % 1000>>

\* the well-formed SRT text that holds the cues
RECURSIVE WrittenSrt(_)
WrittenSrt(cues) ==
    IF cues = <<>> THEN <<>>
    ELSE LET cue == Head(cues) IN
         << IndexLine(cue.index),
            TimingLine(Timestamp(cue.start_time), Timestamp(cue.end_time)) >>
         \o cue.text \o <<BlankLine>> \o WrittenSrt(Tail(cues))

SrtTexts == {WrittenSrt(cues) : cues \in CueLists}

\* serialize a cue list, then parse what was written
Serialize(cues) ==
    /\ lastCall = NoCall
    /\ lastCall' = [op |-> "serialize", cues |-> cues,
                    srt |-> JoinLines(srt_lines(cues)),
                    parsed |-> parse_srt(JoinLines(srt_lines(cues)))]
    /\ UNCHANGED serviceVars

\* parse an SRT text, then serialize the cues again
Parse(srt_content) ==
    /\ lastCall = NoCall
    /\ lastCall' = [op |-> "parse_srt", srt |-> srt_content,
                    cues |-> parse_srt(srt_content),
                    again |-> JoinLines(srt_lines(parse_srt(srt_content)))]
    /\ UNCHANGED serviceVars

NextCodec ==
    \/ \E cues \in CueLists : Serialize(cues)
    \/ \E srt_content \in SrtTexts : Parse(srt_content)

SpecCodec == InitRegistry /\ [][NextCodec]_vars

\* parse_srt on texts with malformed blocks: up to MaxBlocks blocks, each
\* well-formed (one or two lines of text) or malformed in one of the ways a
\* block can be: no text line, an index that int() cannot read, a timing line
\* without ' --> ', a timing line with an hours field of hundreds of digits.
MalformedKinds == {"two_lines", "text_index", "no_arrow", "huge_hours"}
BlockKinds == {"good", "good_two_lines"} \cup MalformedKinds

BlockTiming(k) == TimingLine(Timestamp((k - 1) * 1000), Timestamp(k * 1000))

BlockText(kind) ==
    IF kind = "good_two_lines"
    THEN <<TextLine(<<"h", "i">>), TextLine(<<"y", "o">>)>>
    ELSE <<TextLine(<<"h", "i">>)>>

\* the lines of the k-th block of a text
BlockLines(kind, k) ==
    CASE kind = "two_lines" -> <<IndexLine(k), BlockTiming(k)>>
      [] kind = "text_index" -> <<TextLine(<<"x">>), BlockTiming(k)>> \o BlockText(kind)
      [] kind = "no_arrow" ->
            <<IndexLine(k), TextLine(<<"0", "0", ":", "0", "0", ":", "0", "1">>)>>
                \o BlockText(kind)
      [] kind = "huge_hours" -> <<IndexLine(k), HugeTimingLine>> \o BlockText(kind)
      [] OTHER -> <<IndexLine(k), BlockTiming(k)>> \o BlockText(kind)

\* the blocks from the k-th on, a blank line between two blocks
RECURSIVE BlocksText(_, _)
BlocksText(kinds, k) ==
    IF k > Len(kinds) THEN <<>>
    ELSE BlockLines(kinds[k], k)
         \o (IF k < Len(kinds) THEN <<BlankLine>> ELSE <<>>)
         \o BlocksText(kinds, k + 1)

ParseText(kinds) ==
    /\ lastCall = NoCall
    /\ LET srt_content == BlocksText(kinds, 1)
           raised == parse_srt_raised(srt_content)
       IN  lastCall' = [op |-> "parse_text", kinds |-> kinds, srt |-> srt_content,
                        raised |-> raised,
                        cues |-> IF raised = None THEN Some(parse_srt(srt_content))
                                 ELSE None]
    /\ UNCHANGED serviceVars

NextParse ==
    /\ lastCall = NoCall
    /\ \E kinds \in UNION {[1..n -> BlockKinds] : n \in 1..MaxBlocks} : ParseText(kinds)

SpecParse == InitRegistry /\ [][NextParse]_vars

\* translate_srt on its own: every written SRT text, every answer of the two
\* providers with fewer, as many or more lines than the text has cues
TranslatedLines == {TextLine(<<"h", "o", "l", "a">>), BlankLine}

ProviderTexts ==
    UNION {[1..n -> TranslatedLines] : n \in 1..(MaxCues + 1)}

DeeplOutcomes == {None} \cup {Some(x) : x \in ProviderTexts}

LibreOutcomes ==
    {None, Some([translatedText |-> None])}
        \cup {Some([translatedText |-> Some(x)]) : x \in ProviderTexts}

Translate(srt_content, deepl, libre) ==
    /\ lastCall = NoCall
    /\ lastCall' = [op |-> "translate_srt", srt |-> srt_content,
                    cues |-> parse_srt(srt_content),
                    deepl |-> deepl, libre |-> libre,
                    ret |-> translate_srt(<<srt_content, "en", "es", "key", "url">>,
                                          deepl, libre)]
    /\ UNCHANGED serviceVars

\* the texts given to translate_srt: no cue, one cue, two cues
TranslateTimes == {0, 1001, 2500}

TranslateTexts ==
    {EmptyStr} \cup
    {WrittenSrt(cues) : cues \in {c \in CueLists : \A i \in 1..Len(c) :
         {c[i].start_time, c[i].end_time} \subseteq TranslateTimes}}

NextTranslate ==
    /\ lastCall = NoCall
    /\ \E srt_content \in TranslateTexts, deepl \in DeeplOutcomes,
          libre \in LibreOutcomes : Translate(srt_content, deepl, libre)

SpecTranslate == InitRegistry /\ [][NextTranslate]_vars

(***************************************************************************)
(* Claims about the Task Registry.                                         *)
(***************************************************************************)
StatusRank(status) ==
    CASE status = QUEUED -> 0
      [] status = RUNNING -> 1
      [] status = COMPLETED -> 2
      [] status = FAILED -> 2

\* C1: under any sequence of registry calls a task's status only moves forward
\* (queued, then running, then completed or failed): no call lowers it, so no
\* call takes a completed or failed task back to running.
C1_StatusOnlyForward ==
    [][\A id \in DOMAIN tasks :
          StatusRank(tasks'[id].status) >= StatusRank(tasks[id].status)]_vars

\* C2: under any sequence of update_progress calls the stored progress of a
\* task never decreases.
C2_ProgressNeverDecreases ==
    [][\A id \in DOMAIN tasks : tasks'[id].progress >= tasks[id].progress]_vars

\* C3: the response of a status poll that runs while a worker is in a registry
\* call is never a partially updated task: completed comes with the result and
\* progress 1.0, failed comes with the error.
C3_PollNeverPartial ==
    rd.at = "responded" =>
        /\ rd.data.status = COMPLETED =>
              (rd.data.result # None /\ rd.data.progress = ProgressOne)
        /\ rd.data.status = FAILED => rd.data.error # None


\* C22: in every state of the registry a task has an error exactly when its
\* status is failed, and an error once set is never changed by a later call.
C22_ErrorIffFailed ==
    /\ [](\A id \in DOMAIN tasks :
             (tasks[id].error # None) <=> (tasks[id].status = FAILED))
    /\ [][\A id \in DOMAIN tasks :
             tasks[id].error # None => tasks'[id].error = tasks[id].error]_vars

\* C23: in every state of the registry a task has a result exactly when its
\* status is completed, its progress then being 1.0, and a result once set is
\* never changed by a later call.
C23_ResultIffCompleted ==
    /\ [](\A id \in DOMAIN tasks :
             /\ (tasks[id].result # None) <=> (tasks[id].status = COMPLETED)
             /\ tasks[id].status = COMPLETED => tasks[id].progress = ProgressOne)
    /\ [][\A id \in DOMAIN tasks :
             tasks[id].result # None => tasks'[id].result = tasks[id].result]_vars

\* C25: the progress stored for a task is a number from 0.0 to 1.0 in every
\* state of the registry, whatever argument the calls were given.
C25_ProgressInRange ==
    \A id \in DOMAIN tasks :
        /\ tasks[id].progress # NaN
        /\ tasks[id].progress >= ProgressZero
        /\ tasks[id].progress <= ProgressOne

\* C33: a fail_task call on a task sets its status to failed and its error to
\* the message given, and leaves its progress, its stage and its result as
\* they were; no other task changes and no task id appears or disappears.
C33_FailTaskKeepsProgressAndStage ==
    [][\A id \in RegIds, error \in RegErrors :
          (RegFailTask(id, error) /\ id \in DOMAIN tasks) =>
             /\ DOMAIN tasks' = DOMAIN tasks
             /\ tasks'[id].status = FAILED
             /\ tasks'[id].error = Some(error)
             /\ tasks'[id].progress = tasks[id].progress
             /\ tasks'[id].stage = tasks[id].stage
             /\ tasks'[id].result = tasks[id].result
             /\ \A other \in DOMAIN tasks \ {id} : tasks'[other] = tasks[other]]_vars

C33_Witness ==
    \E id \in DOMAIN tasks :
        /\ tasks[id].status = FAILED
        /\ tasks[id].error # None
        /\ tasks[id].progress = 5000
        /\ tasks[id].stage = Some(TRANSCRIBING)

\* C34: in every state of the registry, update_progress, complete_task and
\* fail_task called with an id that is not in the registry return the registry
\* as it was, whatever their other arguments, and get_task on that id returns
\* None.
C34_UnknownIdIgnored ==
    \A id \in RegIds \ DOMAIN tasks :
        /\ \A progress \in RegProgressArgs, stage \in RegStages :
              update_progress(tasks, id, progress, stage) = tasks
        /\ \A result \in RegResults : complete_task(tasks, id, result) = tasks
        /\ \A error \in RegErrors : fail_task(tasks, id, error) = tasks
        /\ get_task(tasks, id) = None

C34_Witness ==
    /\ \E id \in DOMAIN tasks : tasks[id].status = RUNNING /\ tasks[id].progress = 5000
    /\ RegIds \ DOMAIN tasks # {}
    /\ \A id \in RegIds \ DOMAIN tasks :
          fail_task(tasks, id, <<"Transcription produced no results">>) = tasks

(***************************************************************************)
(* Claims about the background run.                                        *)
(***************************************************************************)
Terminal(t) == t \in DOMAIN tasks /\ tasks[t].status \in {COMPLETED, FAILED}

\* C4: every accepted job ends completed or failed, and no run ends leaving
\* its task queued or running.
C4_EveryJobEnds ==
    /\ \A t \in TaskIds : [](pc[t] = "pending" => <>(pc[t] = "done" /\ Terminal(t)))
    /\ [](\A t \in TaskIds : pc[t] = "done" => Terminal(t))

C4_Witness ==
    \E t \in TaskIds : pc[t] = "done" /\ hist[t].whisper = 1 /\ Terminal(t)

\* the message the handler at line 369 sees for an exception first raised as
\* `original` in a run whose history is h
HandlerMessage(original, h, request) ==
    IF original.type = "ffmpeg.Error"
    THEN <<"Failed to extract audio from video: ">> \o original.msg
    ELSE IF original.type = "requests.ConnectionError"
    THEN <<"Whisper server unavailable at ", WHISPER_SERVER_URL>>
    ELSE IF original.type = "requests.Timeout"
    THEN <<"Transcription timeout - video may be too long">>
    ELSE IF original.type = "requests.HTTPError"
    THEN <<"Transcription failed: ">> \o original.msg
    ELSE IF original.type = "OSError" /\ h.save = 1
    THEN <<"Cannot write SRT file to ", TargetLang(request), ": ">> \o original.msg
    ELSE original.msg

\* C5 as stated: an exception raised at any step leaves the task failed with
\* error equal to the message of the exception that was raised.
C5_ErrorIsRaisedMessage ==
    \A t \in TaskIds :
        hist[t].original # None =>
            /\ tasks[t].status = FAILED
            /\ tasks[t].error = Some(Str(hist[t].original[1]))

\* C5 as amended: an exception that escapes a step of the run (all but the
\* failures the run recovers from: listing the directory, reading the cached
\* file, decoding a stream line) ends the run with the task failed and error
\* equal to the message of the exception that reaches the run's handler: the
\* raised exception's own message, except that an ffmpeg error, a requests
\* connection error, timeout or HTTP error, and an OSError while saving are
\* replaced by the step's own exception and message.
C5_ErrorIsHandlerMessage ==
    \A t \in TaskIds :
        hist[t].original # None =>
            /\ pc[t] = "done"
            /\ tasks[t].status = FAILED
            /\ tasks[t].error =
                  Some(HandlerMessage(hist[t].original[1], hist[t], job[t][1]))

C5_Witness ==
    \E t \in TaskIds :
        /\ hist[t].original # None
        /\ hist[t].original[1].type = "requests.ConnectionError"
        /\ tasks[t].status = FAILED

\* C6: once a run has put its task into failed or completed, nothing changes
\* the task's status, error or result.
C6_TerminalIsFinal ==
    [][\A t \in DOMAIN tasks :
          Terminal(t) =>
              /\ tasks'[t].status = tasks[t].status
              /\ tasks'[t].error = tasks[t].error
              /\ tasks'[t].result = tasks[t].result]_vars

C6_Witness ==
    \E t \in TaskIds :
        /\ Terminal(t)
        /\ tasks[t].status = FAILED
        /\ tasks[t].stage = Some(TRANSCRIBING)

\* C7: over a whole background run the progress stored for the task never
\* decreases, whatever progress events the Transcription Service sends.
C7_RunProgressMonotone ==
    [][\A t \in TaskIds :
          (pc[t] \in RunPlaces /\ t \in DOMAIN tasks) =>
              tasks'[t].progress >= tasks[t].progress]_vars

\* C8: a cache hit that is readable completes the task with cached=true
\* without any progress/stage update and without calling the Transcription
\* Service, the Translation Service or the file save.
C8_CacheHitSkipsPipeline ==
    \A t \in TaskIds :
        (hist[t].found /\ ~hist[t].read_failed) =>
            /\ ~hist[t].updated
            /\ hist[t].whisper = 0 /\ hist[t].translate = 0 /\ hist[t].save = 0
            /\ tasks[t].stage = None
            /\ pc[t] \in {"cache_read", "done"}
            /\ pc[t] = "done" =>
                  /\ tasks[t].status = COMPLETED
                  /\ tasks[t].result[1].cached = TRUE

C8_Witness ==
    \E t \in TaskIds :
        /\ hist[t].found /\ ~hist[t].read_failed
        /\ pc[t] = "done"
        /\ tasks[t].status = COMPLETED
        /\ tasks[t].result[1].cached = TRUE

\* C9: when the cached file is found but cannot be read, the run does not fail
\* for that reason: it goes on with the full pipeline and, if extraction,
\* transcription, translation and save succeed, completes with cached=false.
C9_UnreadableCacheRegenerates ==
    \A t \in TaskIds :
        hist[t].read_failed =>
            /\ pc[t] = "progress_05" \/ hist[t].updated
            /\ tasks[t].status = FAILED =>
                  (hist[t].updated /\ hist[t].caught # None
                   /\ hist[t].original \notin ReadOutcomes)
            /\ (pc[t] = "done" /\ hist[t].caught = None) =>
                  /\ tasks[t].status = COMPLETED
                  /\ tasks[t].result[1].cached = FALSE
                  /\ hist[t].whisper = 1 /\ hist[t].save = 1

C9_Witness ==
    \E t \in TaskIds :
        /\ hist[t].read_failed
        /\ pc[t] = "done"
        /\ tasks[t].status = COMPLETED
        /\ tasks[t].result[1].cached = FALSE

\* C10: a job whose target language equals its source language calls no
\* translation step and completes with translation_service=None.
C10_SameLanguageNoService ==
    \A t \in TaskIds :
        (job[t] # None /\ job[t][1].translate_to = Some(job[t][1].language)) =>
            /\ hist[t].translate = 0
            /\ tasks[t].status = COMPLETED =>
                  tasks[t].result[1].translation_service = None

\* C11: the translating stage is entered, and the Translation Fallback Chain
\* called, only in a run whose job names a target language that differs from
\* the source language and for which the transcription was not run in
\* translate mode.
C11_TranslationOnlyWhenNeeded ==
    \A t \in TaskIds :
        (\/ pc[t] \in {"translating", "translate_srt"}
         \/ hist[t].translate > 0
         \/ (t \in DOMAIN tasks /\ tasks[t].stage = Some(TRANSLATING))) =>
            /\ job[t][1].translate_to # None
            /\ job[t][1].translate_to # Some(job[t][1].language)
            /\ ~TranslateToEnglish(job[t][1].translate_to, Some(job[t][1].language))

C11_Witness ==
    \E t \in TaskIds :
        /\ hist[t].translate = 1
        /\ tasks[t].stage = Some(TRANSLATING)

\* the provider that produces the translation when the providers answer as in p
\* (p[1]: the primary succeeds, p[2]: the secondary succeeds)
ProviderOf(p) == IF p[1] THEN "deepl" ELSE "libretranslate"

\* C12: a run that reaches the translation call with at least one provider
\* able to translate goes on to the save and, when it completes, reports the
\* provider that produced the translation.
C12_TranslationCompletes ==
    \A t \in TaskIds :
        (/\ pc[t] = "done"
         /\ hist[t].providers # None
         /\ (hist[t].providers[1][1] \/ hist[t].providers[1][2])) =>
            /\ hist[t].save = 1
            /\ tasks[t].status = COMPLETED =>
                  tasks[t].result[1].translation_service
                      = Some(ProviderOf(hist[t].providers[1]))

\* the run of t has reached the save of the subtitle file
SaveReached(t) ==
    pc[t] \in {"saving", "save_srt_file", "complete_task"} \/ hist[t].save > 0

C18_NoCompletionFails ==
    [][\A t \in TaskIds :
          (pc[t] = "stream" /\ pc'[t] # "stream" /\ loc[t].result = None) =>
              /\ pc'[t] = "done"
              /\ tasks'[t].status = FAILED
              /\ hist'[t].caught # None]_vars

C18_Witness ==
    \E t \in TaskIds :
        /\ pc[t] = "done"
        /\ tasks[t].status = FAILED
        /\ tasks[t].progress > 1000
        /\ hist[t].caught = Some(Exc("RuntimeError",
                               <<"No completion message received from Whisper server">>))

\* C19: a line of the stream that is not JSON, or is JSON without the type
\* field, ends no run: no task fails on the error of reading such a line.
C19_MalformedLineSkipped ==
    \A t \in TaskIds :
        hist[t].original # None => hist[t].original[1].type # "KeyError"

\* C24: a task has a stage only while its status is running: none while it
\* is queued, none once it is completed or failed.
C24_StageOnlyWhileRunning ==
    \A t \in DOMAIN tasks :
        tasks[t].stage # None => tasks[t].status = RUNNING

\* C27: once a complete event has been read, no later line of the stream is
\* applied: no progress update of the task, no other result, no failure
\* raised from a later error event.
C27_StopsAtTerminalEvent ==
    [][\A t \in TaskIds :
          (pc[t] = "stream" /\ loc[t].result # None) =>
              /\ pc'[t] = "stream" =>
                    (tasks'[t] = tasks[t] /\ loc'[t].result = loc[t].result)
              /\ pc'[t] = "done" =>
                    hist'[t].original[1].msg \in
                        {<<"Invalid response from Whisper server">>,
                         <<"Transcription produced no results">>}]_vars

\* C30: no step of a run is tried again: whatever fails, the run sends at most
\* one request to the Transcription Service and makes at most one call of the
\* translation chain, which asks each provider at most once; a failure of
\* either ends the run.
C30_NoRetry ==
    \A t \in TaskIds :
        /\ hist[t].whisper <= 1
        /\ hist[t].translate <= 1
        /\ hist[t].providers # None => hist[t].translate = 1
        /\ \A i, j \in 1..Len(hist[t].calls) :
              hist[t].calls[i].provider = hist[t].calls[j].provider => i = j
        /\ (hist[t].caught # None /\ hist[t].whisper = 1) => pc[t] = "done"

C30_Witness ==
    \E t \in TaskIds :
        /\ hist[t].whisper = 1
        /\ hist[t].original \in PostOutcomes \ {None}
        /\ pc[t] = "done"
        /\ tasks[t].status = FAILED

\* C31: the temporary audio file of a run exists only between its extraction
\* and the end of the call to the Transcription Service: once the run has left
\* transcribe_video, by a return or by any exception, the file is removed.
C31_AudioRemovedOnEveryExit ==
    \A t \in TaskIds : audio[t] => pc[t] \in {"whisper_post", "stream"}

\* C38: the registry lock is held only by a thread that is inside a registry
\* method; a run whose thread is blocked in the request to the Transcription
\* Service or in reading the next line of its stream does not hold it, and a
\* status poll can then take it unless another thread is inside a method.
C38_LockFreeDuringNetworkWait ==
    /\ lock # None =>
          /\ wr # WrIdle
          /\ lock = Some(wr.id)
          /\ pc[wr.id] = "registry"
    /\ \A t \in TaskIds : pc[t] \in NetworkPlaces => lock # Some(t)
    /\ \A t \in TaskIds :
          (pc[t] \in NetworkPlaces /\ rd = RdIdle /\ wr = WrIdle) => ENABLED RGetTask(t)

C38_Witness ==
    \E t \in TaskIds :
        /\ pc[t] = "stream"
        /\ tasks[t].progress = TaskProgress(50, FALSE)
        /\ tasks[t].stage = Some(TRANSCRIBING)
        /\ lock = None
        /\ rd # RdIdle
        /\ rd.id = t

\* the place of a stage label in the pipeline; 0 for no stage
StagePlace(stage) ==
    CASE stage = None -> 0
      [] stage = Some(EXTRACTING_AUDIO) -> 1
      [] stage = Some(TRANSCRIBING) -> 2
      [] stage = Some(TRANSLATING) -> 3
      [] stage = Some(SAVING) -> 4

\* C39: when a step of a run changes the stage of its task, the new label is
\* the next one in the order extracting_audio, transcribing, translating,
\* saving, translating being the only one that may be passed over; and the
\* step that writes saving is taken by a run that has sent its request to the
\* Transcription Service and holds a text from it that is not empty.
C39_StagesInPipelineOrder ==
    [][\A t \in DOMAIN tasks :
          tasks'[t].stage # tasks[t].stage =>
             /\ \/ StagePlace(tasks'[t].stage) = StagePlace(tasks[t].stage) + 1
                \/ /\ tasks[t].stage = Some(TRANSCRIBING)
                   /\ tasks'[t].stage = Some(SAVING)
             /\ tasks'[t].stage = Some(SAVING) =>
                   /\ hist[t].whisper = 1
                   /\ loc[t].srt_content \notin {None, Some(EmptyStr)}]_vars

C39_Witness ==
    \E t \in DOMAIN tasks :
        /\ tasks[t].stage = Some(SAVING)
        /\ tasks[t].status = COMPLETED
        /\ hist[t].updated

\* C40: after a run has completed with cached=false for a video and a target
\* language, every later run for the same video and target language that the
\* file system does not fail completes with cached=true, reports the path the
\* first one reported and does not call the Transcription Service.
C40_SavedFileIsCacheHit ==
    \A i, j \in 1..Len(RunsSoFar) :
        LET first == RunsSoFar[i]
            later == RunsSoFar[j]
        IN  (/\ i < j
             /\ first.status = COMPLETED
             /\ first.cached = Some(FALSE)
             /\ later.video_path = first.video_path
             /\ later.target_lang = first.target_lang
             /\ ~later.fault) =>
               /\ later.status = COMPLETED
               /\ later.cached = Some(TRUE)
               /\ later.caption_path = first.caption_path
               /\ ~later.whisper

(***************************************************************************)
(* Claims about subtitle.py.                                               *)
(***************************************************************************)
\* the words of the cues, in order: each cue's text split on spaces
RECURSIVE CueWords(_)
CueWords(cues) ==
    IF cues = <<>> THEN <<>>
    ELSE SplitSpace(Head(cues).text[1].s, <<>>) \o CueWords(Tail(cues))

WordsOf(words) == [i \in 1..Len(words) |-> words[i].word]

\* C16 as stated: the cues hold exactly the input words, in order, and a
\* character budget smaller than the joined text gives more than one cue.
C16_WordsKeptAndSplit ==
    (lastCall.op = "group_words_into_cues" /\ lastCall.words # <<>>) =>
        /\ CueWords(lastCall.cues) = WordsOf(lastCall.words)
        /\ lastCall.max_chars < Len(JoinSpace(WordsOf(lastCall.words))) =>
              Len(lastCall.cues) > 1

\* C16 as amended: the cues hold exactly the input words, in order, and a
\* character budget smaller than the joined text gives more than one cue when
\* the input has at least two words (a single word is one cue whatever its
\* length).
C16_WordsKeptAndSplitFromTwoWords ==
    (lastCall.op = "group_words_into_cues" /\ lastCall.words # <<>>) =>
        /\ CueWords(lastCall.cues) = WordsOf(lastCall.words)
        /\ Len(lastCall.cues) >= 1
        /\ (/\ Len(lastCall.words) >= 2
            /\ lastCall.max_chars < Len(JoinSpace(WordsOf(lastCall.words)))) =>
              Len(lastCall.cues) > 1

C16_Witness ==
    /\ lastCall.op = "group_words_into_cues"
    /\ Len(lastCall.words) = 3
    /\ lastCall.max_chars = 3
    /\ Len(lastCall.cues) = 2

\* the number of words of a cue, and the place in the input of its first word
WordCount(cue) == Len(SplitSpace(cue.text[1].s, <<>>))

RECURSIVE FirstWord(_, _)
FirstWord(cues, k) ==
    IF k = 1 THEN 1 ELSE FirstWord(cues, k - 1) + WordCount(cues[k - 1])

\* C35: every cue starts at the start of its first word and ends at the end of
\* its last word; a cue of more than one word has a text no longer than
\* max_chars and lasts, from its start to the end of its last word, no longer
\* than max_duration; a cue over a budget is one word, whole.
C35_CuesWithinBudgets ==
    (lastCall.op = "group_words_into_cues") =>
        LET cues == lastCall.cues
            words == lastCall.words
        IN  \A k \in 1..Len(cues) :
              LET n == WordCount(cues[k])
                  first == FirstWord(cues, k)
                  last == first + n - 1
                  text == cues[k].text[1].s
              IN  /\ last <= Len(words)
                  /\ cues[k].start_time = words[first].start
                  /\ cues[k].end_time = words[last].end
                  /\ n > 1 =>
                        /\ Len(text) <= lastCall.max_chars
                        /\ words[last].end - cues[k].start_time <= lastCall.max_duration
                  /\ (\/ Len(text) > lastCall.max_chars
                      \/ cues[k].end_time - cues[k].start_time > lastCall.max_duration) =>
                        /\ n = 1
                        /\ text = words[first].word

C35_Witness ==
    /\ lastCall.op = "group_words_into_cues"
    /\ lastCall.max_chars = 3
    /\ lastCall.max_duration = 1000
    /\ Len(lastCall.cues) = 2
    /\ WordCount(lastCall.cues[1]) = 2
    /\ lastCall.cues[1].end_time - lastCall.cues[1].start_time = 1000
    /\ Len(lastCall.cues[2].text[1].s) = 4

\* C36: for words in time order, each ending after it starts and none
\* overlapping the next, the cues returned are numbered 1, 2, ... in order,
\* each cue ends after it starts and starts no earlier than the end of the cue
\* before it; for no word at all the function returns the empty list.
C36_CuesNumberedAndOrdered ==
    (lastCall.op = "group_words_into_cues") =>
        LET cues == lastCall.cues IN
        /\ lastCall.words = <<>> => cues = <<>>
        /\ lastCall.words # <<>> => cues # <<>>
        /\ \A k \in 1..Len(cues) :
              /\ cues[k].index = k
              /\ cues[k].end_time > cues[k].start_time
              /\ k > 1 => cues[k].start_time >= cues[k - 1].end_time

C36_Witness ==
    /\ lastCall.op = "group_words_into_cues"
    /\ Len(lastCall.cues) = 3
    /\ lastCall.cues[3].index = 3
    /\ lastCall.cues[2].start_time = lastCall.cues[1].end_time
    /\ lastCall.cues[3].start_time > lastCall.cues[2].end_time

\* the cues of the well-formed blocks of a text, from the k-th block on
RECURSIVE WellFormedCues(_, _)
WellFormedCues(kinds, k) ==
    IF k > Len(kinds) THEN <<>>
    ELSE (IF kinds[k] \in MalformedKinds THEN <<>>
          ELSE <<SubtitleCue(k, (k - 1) * 1000, k * 1000, BlockText(kinds[k]))>>)
         \o WellFormedCues(kinds, k + 1)

\* C37: whatever malformed blocks a text holds, parse_srt raises nothing and
\* returns the cues of its well-formed blocks, all of them and in order.
C37_MalformedBlocksSkipped ==
    (lastCall.op = "parse_text") =>
        /\ lastCall.raised = None
        /\ lastCall.cues = Some(WellFormedCues(lastCall.kinds, 1))

\* C17: parsing the serialized text of a cue list with valid timings and
\* non-empty text gives the same cues, and serializing the cues parsed from a
\* well-formed SRT text gives the same text.
C17_SubtitleRoundTrip ==
    /\ lastCall.op = "serialize" => lastCall.parsed = lastCall.cues
    /\ lastCall.op = "parse_srt" => lastCall.again = lastCall.srt


\* C13: the secondary provider is called only after the primary one failed,
\* with the same batch text; the reported provider is the one whose text was
\* used; the text returned holds as many cues as the text given.
C13_FallbackOrderAndCueCount ==
    (lastCall.op = "translate_srt" /\ lastCall.ret.raised = None /\ lastCall.cues # <<>>) =>
        LET r == lastCall.ret IN
        /\ r.calls[1].provider = "deepl"
        /\ Len(r.calls) = 2 =>
              /\ lastCall.deepl = None
              /\ r.calls[2].provider = "libretranslate"
              /\ r.calls[2].text = r.calls[1].text
        /\ r.service_used = Some(IF lastCall.deepl # None THEN "deepl" ELSE "libretranslate")
        /\ Len(parse_srt(r.srt_content[1])) = Len(lastCall.cues)

\* C15: for every cue list and every provider text, the translated text holds
\* the same number of cues with the same indices and the same timings in the
\* same order as the text given.
C15_CuesKeptByTranslation ==
    (lastCall.op = "translate_srt" /\ lastCall.ret.raised = None /\ lastCall.cues # <<>>) =>
        LET out == parse_srt(lastCall.ret.srt_content[1]) IN
        /\ Len(out) = Len(lastCall.cues)
        /\ \A i \in 1..Len(out) :
              /\ out[i].index = lastCall.cues[i].index
              /\ out[i].start_time = lastCall.cues[i].start_time
              /\ out[i].end_time = lastCall.cues[i].end_time

\* C32: a reply without a required field is a failure: a complete event
\* without srt_content makes transcribe_with_whisper raise, and a reply of the
\* secondary provider without translatedText, after the primary one failed,
\* makes translate_srt raise instead of returning a text.
C32_MissingFieldFails ==
    /\ \A payload \in Payloads : payload.srt_content = None =>
          stream_result(Some(payload), Some("en")).raised # None
    /\ (/\ lastCall.op = "translate_srt"
        /\ lastCall.cues # <<>>
        /\ lastCall.deepl = None
        /\ lastCall.libre # None
        /\ lastCall.libre[1].translatedText = None) =>
          lastCall.ret.raised # None

(***************************************************************************)
(* Claims about the stream of the Transcription Service.                   *)
(***************************************************************************)
TerminalEvent(event) == event.type \in {"complete", "error"}

\* C26: the stream of a request is progress events followed, when it is
\* closed, by exactly one complete or error event, and the fraction of every
\* progress event is from 0 to 1.
C26_StreamShape ==
    (lastCall.op = "stream_transcribe_srt") =>
        LET out == lastCall.out IN
        /\ \A i \in 1..Len(out) : TerminalEvent(out[i]) => i = Len(out)
        /\ lastCall.at = "closed" => (out # <<>> /\ TerminalEvent(out[Len(out)]))
        /\ lastCall.at = "loop" => \A i \in 1..Len(out) : ~TerminalEvent(out[i])
        /\ \A i \in 1..Len(out) :
              out[i].type = "progress" =>
                  (out[i].progress >= ProgressZero /\ out[i].progress <= ProgressOne)

(***************************************************************************)
(* Claims about the progress of a run.                                     *)
(***************************************************************************)
\* the interval of the transcription phase: 0.10 to 0.75, or to 0.95 when the
\* Transcription Service also translates
PhaseStart == 1000
PhaseEnd(translate_to_english) == IF translate_to_english THEN 9500 ELSE 7500

\* start + f * (end - start), f in hundredths
Interpolated(f, translate_to_english) ==
    PhaseStart + (f * (PhaseEnd(translate_to_english) - PhaseStart)) \div 100

\* C28: for a progress event with fraction f from 0 to 1 the relay writes
\* start + f * (end - start) with stage transcribing, the phase start at f = 0
\* and the phase end at f = 1; for any other f it writes that value brought
\* into 0..1.
C28_RelayInterpolatesClamped ==
    (lastCall.op = "progress_event") =>
        LET task == lastCall.ret.ts[1]
            f == lastCall.progress
            mode == lastCall.translate_to_english
            x == Interpolated(f, mode) IN
        /\ lastCall.ret.raised = None
        /\ task.stage = Some(TRANSCRIBING)
        /\ task.progress = (IF x < ProgressZero THEN ProgressZero
                            ELSE IF x > ProgressOne THEN ProgressOne ELSE x)
        /\ (f >= 0 /\ f <= 100) => task.progress = x
        /\ f = 0 => task.progress = PhaseStart
        /\ f = 100 => task.progress = PhaseEnd(mode)

C28_Witness ==
    /\ lastCall.op = "progress_event"
    /\ lastCall.progress = 100
    /\ lastCall.translate_to_english
    /\ lastCall.ret.ts[1].progress = 9500

\* C29: in every run the shares of the four phases (extraction 10%,
\* transcription 65% or 85%, translation 20% or none, persistence 5%) sum to
\* 100%, and the checkpoints follow them: a run that enters the persistence
\* phase has the progress of all the earlier phases, 1.0 less the share of
\* persistence.
C29_WeightsPartition ==
    \A t \in TaskIds :
        pc[t] = "saving" =>
            LET extraction == 1000
                transcription == IF loc[t].translate_to_english THEN 8500 ELSE 6500
                translation == IF hist[t].translate > 0 THEN 2000 ELSE 0
                persistence == 500 IN
            /\ extraction + transcription + translation + persistence = ProgressOne
            /\ tasks[t].progress = extraction + transcription + translation
            /\ tasks[t].progress = ProgressOne - persistence

(***************************************************************************)
(* Claims about the submission endpoint.                                   *)
(***************************************************************************)
\* a body with its required fields and supported codes, a readable file
ValidSubmission(raw, state) ==
    /\ raw.video_path # None
    /\ raw.language \in {Some(l) : l \in Langs}
    /\ raw.translate_to \in {None} \cup {Some(l) : l \in Langs}
    /\ state = "file"

\* C21: a submission whose body or video path fails validation is answered
\* with an error at once: no task is created and no run is queued.
C21_InvalidSubmissionRejected ==
    [][(lastCall'.op = "start_caption_task"
        /\ ~ValidSubmission(lastCall'.raw, lastCall'.state)) =>
            /\ lastCall'.status_code \in {400, 404, 422}
            /\ lastCall'.task_id = None
            /\ tasks' = tasks
            /\ pc' = pc
            /\ job' = job]_vars

C21_Witness ==
    /\ lastCall.op = "start_caption_task"
    /\ lastCall.state = "unreadable"
    /\ lastCall.status_code = 400
    /\ tasks = <<>>
    /\ \A t \in TaskIds : pc[t] = "idle"

(***************************************************************************)
(* Claims about the worker pool.                                           *)
(***************************************************************************)
\* C20: at most max_workers runs execute at a time, so at most that many tasks
\* are running; a job waiting for a worker has had no registry write since
\* its creation; a submission is accepted whatever the number of runs.
C20_AtMostFourRuns ==
    /\ Cardinality(Running) <= max_workers
    /\ Cardinality({t \in DOMAIN tasks : tasks[t].status = RUNNING}) <= max_workers
    /\ \A t \in PoolIds : pc[t] = "pending" => tasks[t] = NewTask
    /\ DOMAIN tasks # PoolIds => ENABLED PoolSubmit

C20_Witness ==
    /\ Cardinality({t \in DOMAIN tasks : tasks[t].status = RUNNING}) = max_workers
    /\ \E t \in PoolIds : pc[t] = "pending" /\ tasks[t] = NewTask

====
